---- MODULE Spec2Model ----
(***************************************************************************)
(* A model of satorunooshie/go-tools:                                      *)
(*   - internal/bisect: the pattern compiler New and the Matcher queries   *)
(*     ShouldEnable, ShouldReport and Verbose (specification SpecBisect);  *)
(*   - the go:fix-inline analyzers gofix and inline/analyzer: the pass     *)
(*     over declarations and call sites (specification SpecAnalyzer);      *)
(*   - the argument binder of the inlining engine (specification           *)
(*     SpecInline);                                                        *)
(*   - internal/bisect: Marker, AppendMarker and CutMarker (specification  *)
(*     SpecMarker);                                                        *)
(*   - the receiver binder, the import fixer and the splicing of n-ary     *)
(*     results of the inlining engine (specification SpecRewrite);         *)
(*   - internal/mcp: the session list of Server (specification SpecServer);*)
(*   - the report of a use of an inlinable constant by both analyzers      *)
(*     (specification SpecConst);                                          *)
(*   - the //go:fix inline directive and the declarations gofix takes for  *)
(*     candidates (specification SpecDirective);                           *)
(*   - internal/bisect: New on terms of 64 bits and more (specification    *)
(*     SpecWidth, the actions of SpecBisect on long patterns);             *)
(*   - internal/mcp: resources/read (specification SpecResource).          *)
(*                                                                         *)
(* A uint64 is modelled as the set of its one-bit positions, a subset of   *)
(* 0..63, so every operation keeps the 64-bit width.  A Go string is a     *)
(* sequence of one-character strings.                                      *)
(***************************************************************************)
EXTENDS Integers, Sequences, FiniteSets, TLC

VARIABLES
    pattern,    \* bisect: the argument of New
    bpc,        \* bisect: "start" before New has run, "made" after
    m,          \* bisect: the *Matcher New returned (a record; nil is NilMatcher)
    err,        \* bisect: the error New returned ("" is the nil error)
    last,       \* bisect: the last query made of m and what it returned
    which,          \* analyzer: the analyzer that runs, "gofix" or "inline"
    phase,          \* analyzer: "find" (pass 1), "inline" (pass 2), "done"
    step,           \* analyzer: the number of nodes handled so far
    facts,          \* analyzer: the functions ImportObjectFact has a fact for
    inlinableFuncs, \* analyzer: the memo map from function to Callee
    fileContent,    \* analyzer: the memo map from file name to content
    diags,          \* analyzer: the diagnostics reported, in order
    visits,         \* analyzer: what happened at each node (a history)
    importCalls,    \* analyzer: how often ImportObjectFact was called per function
    readCalls,      \* analyzer: how often pass.ReadFile was called per file
    iargs,      \* inliner: per argument of the call, whether it has side effects
    ibody,      \* inliner: the parameters the callee body uses, in order
    iopts,      \* inliner: what strategies the callee and the call allow
    ipc,        \* inliner: "call", "inlined", "ran"
    ires,       \* inliner: the Result of inlining the call
    itrace,     \* inliner: the arguments evaluated by running the result
    msrc,       \* marker: how the line was written (id, affixes, marker text)
    line,       \* marker: the line given to CutMarker
    cut,        \* marker: what CutMarker returned
    mpc,        \* marker: "start", "marked", "line", "cut"
    rin,        \* rewrite: the call inlined (receiver, imports or results)
    rout,       \* rewrite: what the engine made of it
    rpc,        \* rewrite: "call", "done"
    heap,       \* server: the backing arrays of the slices, by address
    sessions,   \* server: the slice Server.sessions (array, len)
    life,       \* server: how far each session is ("none" before Connect)
    iterSeq,    \* server: the iterator Sessions returned last (a slice)
    atCall,     \* server: whether Sessions was called, and the sessions live then
    yielded,    \* server: what ranging over iterSeq yielded last
    cuse,       \* const: the use of a constant A and the file it stands in
    inlinableConsts, \* const: the memo entry of A (a fact, or NilFact)
    creport,    \* const: the diagnostic reported for the use
    cpc,        \* const: "use" before the use is visited, "visited" after
    decl,       \* directive: the declaration find visits (token, doc groups)
    candidate,  \* directive: whether find took the declaration for a candidate
    dpc,        \* directive: "decl" before find visits the declaration, "found" after
    resources,  \* resource: the handler registered for each URI (NoHandler if none)
    nreads,     \* resource: the number of resources/read requests served
    rlast       \* resource: the last request served, with the reply

bisectVars == <<pattern, bpc, m, err, last>>

analyzerVars == <<which, phase, step, facts, inlinableFuncs, fileContent,
                  diags, visits, importCalls, readCalls>>

inlineVars == <<iargs, ibody, iopts, ipc, ires, itrace>>

markerVars == <<msrc, line, cut, mpc>>

rewriteVars == <<rin, rout, rpc>>

serverVars == <<heap, sessions, life, iterSeq, atCall, yielded>>

constVars == <<cuse, inlinableConsts, creport, cpc>>

directiveVars == <<decl, candidate, dpc>>

resourceVars == <<resources, nreads, rlast>>

notBisectVars == <<analyzerVars, inlineVars, markerVars, rewriteVars, serverVars,
    constVars,
    directiveVars,
    resourceVars>>

notAnalyzerVars == <<bisectVars, inlineVars, markerVars, rewriteVars, serverVars,
    constVars,
    directiveVars,
    resourceVars>>

notInlineVars == <<bisectVars, analyzerVars, markerVars, rewriteVars, serverVars,
    constVars,
    directiveVars,
    resourceVars>>

notMarkerVars == <<bisectVars, analyzerVars, inlineVars, rewriteVars, serverVars,
    constVars,
    directiveVars,
    resourceVars>>

notRewriteVars == <<bisectVars, analyzerVars, inlineVars, markerVars, serverVars,
    constVars,
    directiveVars,
    resourceVars>>

notServerVars == <<bisectVars, analyzerVars, inlineVars, markerVars, rewriteVars,
    constVars,
    directiveVars,
    resourceVars>>

notConstVars == <<bisectVars,
    analyzerVars,
    inlineVars,
    markerVars,
    rewriteVars,
    serverVars,
    directiveVars,
    resourceVars>>

notDirectiveVars == <<bisectVars,
    analyzerVars,
    inlineVars,
    markerVars,
    rewriteVars,
    serverVars,
    constVars,
    resourceVars>>

notResourceVars == <<bisectVars,
    analyzerVars,
    inlineVars,
    markerVars,
    rewriteVars,
    serverVars,
    constVars,
    directiveVars>>

vars == <<bisectVars, analyzerVars, inlineVars, markerVars, rewriteVars,
          serverVars,
          constVars,
          directiveVars,
          resourceVars>>

----------------------------------------------------------------------------
(* Bounds *)

\* Patterns of up to MaxPatLen characters over Alphabet are all tried.
MaxPatLen == 4

\* Every id below 2^IdBits is queried (and a few ids beyond).
IdBits == 3

\* An analysis pass handles up to MaxNodes declarations and uses.
MaxNodes == 3

\* A call inlined has up to MaxArgs arguments, and the callee body up to
\* MaxUses uses of its parameters.
MaxArgs == 2

MaxUses == 3

\* The text between "[bisect-match " and "]" of a hand-written marker has up
\* to MaxIdLen characters of IdAlphabet (longer ones are listed in DocIdStrs).
MaxIdLen == 3

----------------------------------------------------------------------------
(* uint64 arithmetic on bit sets *)

WordBits == 64

Word == 0 .. (WordBits - 1)

Pow2(n) == IF n = 0 THEN 1 ELSE IF n = 1 THEN 2 ELSE IF n = 2 THEN 4
           ELSE IF n = 3 THEN 8 ELSE IF n = 4 THEN 16 ELSE 32

\* uint64(n) for a small non-negative n (a digit value).
U64(n) == {k \in 0 .. 4 : (n \div Pow2(k)) % 2 = 1}

\* b << w on uint64: bits shifted past bit 63 are lost.
Shl(b, w) == {k + w : k \in b} \cap Word

BitOr(a, b) == a \cup b

BitAnd(a, b) == a \cap b

SetMin(S) == CHOOSE k \in S : \A j \in S : k <= j

\* A slip: the mask 1<<n without the "- 1".
Dec_Forgotten(b) == b

\* b - 1 on uint64: 0 - 1 wraps to all ones.
Dec(b) == IF b = {} THEN Word
          ELSE LET k == SetMin(b) IN (b \ {k}) \cup (0 .. (k - 1))

----------------------------------------------------------------------------
(* internal/bisect: New *)

ErrSyntax == "invalid pattern syntax"
ErrPlusAfterMinus == "invalid pattern syntax (+ after -)"
ErrTooLong == "pattern bits too long"

\* The nil *Matcher.
NilMatcher == [nil |-> TRUE, verbose |-> FALSE, enable |-> FALSE, list |-> <<>>]

\* new(Matcher): the zero value.
ZeroMatcher == [nil |-> FALSE, verbose |-> FALSE, enable |-> FALSE, list |-> <<>>]

cond(mask, bits, result) == [mask |-> mask, bits |-> bits, result |-> result]

Failure(e) == [m |-> NilMatcher, err |-> e]

DecDigits == {"0", "1", "2", "3", "4", "5", "6", "7", "8", "9"}
HexLetters == {"a", "b", "c", "d", "e", "f", "A", "B", "C", "D", "E", "F"}

\* uint64(c - '0') for a decimal digit c.
DigitVal(c) ==
    CASE c = "0" -> 0 [] c = "1" -> 1 [] c = "2" -> 2 [] c = "3" -> 3
      [] c = "4" -> 4 [] c = "5" -> 5 [] c = "6" -> 6 [] c = "7" -> 7
      [] c = "8" -> 8 [] c = "9" -> 9

\* uint64(c&^0x20 - 'A' + 10) for a hex letter c of either case.
LetterVal(c) ==
    CASE c \in {"a", "A"} -> 10 [] c \in {"b", "B"} -> 11
      [] c \in {"c", "C"} -> 12 [] c \in {"d", "D"} -> 13
      [] c \in {"e", "E"} -> 14 [] c \in {"f", "F"} -> 15

Tail2(s) == SubSeq(s, 2, Len(s))

\* The loop "for len(p) > 0 && p[0] == 'v'": what is left of p, or the
\* failure when only v's were there.
RECURSIVE StripV(_, _)
StripV(p, seen) ==
    IF Len(p) > 0 /\ p[1] = "v"
    THEN IF Tail2(p) = <<>> THEN [ok |-> FALSE, p |-> <<>>, verbose |-> TRUE]
         ELSE StripV(Tail2(p), TRUE)
    ELSE [ok |-> TRUE, p |-> p, verbose |-> seen]

\* A slip: a ! that sets the polarity instead of negating it.
RECURSIVE StripBang_Set(_, _)
StripBang_Set(p, enable) ==
    IF Len(p) > 0 /\ p[1] = "!"
    THEN IF Tail2(p) = <<>> THEN [ok |-> FALSE, p |-> <<>>, enable |-> FALSE]
         ELSE StripBang_Set(Tail2(p), FALSE)
    ELSE [ok |-> TRUE, p |-> p, enable |-> enable]

\* The loop "for len(p) > 0 && p[0] == '!'", each ! negating enable.
RECURSIVE StripBang(_, _)
StripBang(p, enable) ==
    IF Len(p) > 0 /\ p[1] = "!"
    THEN IF Tail2(p) = <<>> THEN [ok |-> FALSE, p |-> <<>>, enable |-> ~enable]
         ELSE StripBang(Tail2(p), ~enable)
    ELSE [ok |-> TRUE, p |-> p, enable |-> enable]

\* A slip: n taken as an alias for y.
AliasN_KeepEnable(p, enable) ==
    IF p = <<"n">> THEN [p |-> <<"y">>, enable |-> enable]
    ELSE [p |-> p, enable |-> enable]

\* "if p == "n"": n is an alias for !y.
AliasN(p, enable) ==
    IF p = <<"n">> THEN [p |-> <<"y">>, enable |-> ~enable]
    ELSE [p |-> p, enable |-> enable]

\* A slip: the test for a + after a - left out.
FlushTerm_NoOrderTest(p, i, c, start, wid, bits, result, list) ==
    IF i > 0
    THEN LET n == (i - start) * wid IN
         IF n > 64 THEN [err |-> ErrTooLong, list |-> list]
         ELSE IF n <= 0 THEN [err |-> ErrSyntax, list |-> list]
         ELSE LET n2 == IF p[start + 1] = "y" THEN 0 ELSE n
                  mask == Dec(Shl({0}, n2))
              IN [err |-> "", list |-> Append(list, cond(mask, bits, result))]
    ELSE IF c = "-"
    THEN [err |-> "", list |-> Append(list, cond({}, {}, TRUE))]
    ELSE [err |-> "", list |-> list]

\* A slip: a leading - that subtracts from the empty set.
FlushTerm_LeadingMinus(p, i, c, start, wid, bits, result, list) ==
    IF c = "+" /\ result = FALSE THEN [err |-> ErrPlusAfterMinus, list |-> list]
    ELSE IF i > 0
    THEN LET n == (i - start) * wid IN
         IF n > 64 THEN [err |-> ErrTooLong, list |-> list]
         ELSE IF n <= 0 THEN [err |-> ErrSyntax, list |-> list]
         ELSE LET n2 == IF p[start + 1] = "y" THEN 0 ELSE n
                  mask == Dec(Shl({0}, n2))
              IN [err |-> "", list |-> Append(list, cond(mask, bits, result))]
    ELSE [err |-> "", list |-> list]

\* A slip: a term of exactly 64 bits is refused too.
FlushTerm_Max63(p, i, c, start, wid, bits, result, list) ==
    IF c = "+" /\ result = FALSE THEN [err |-> ErrPlusAfterMinus, list |-> list]
    ELSE IF i > 0
    THEN LET n == (i - start) * wid IN
         IF n >= 64 THEN [err |-> ErrTooLong, list |-> list]
         ELSE IF n <= 0 THEN [err |-> ErrSyntax, list |-> list]
         ELSE LET n2 == IF p[start + 1] = "y" THEN 0 ELSE n
                  mask == Dec(Shl({0}, n2))
              IN [err |-> "", list |-> Append(list, cond(mask, bits, result))]
    ELSE IF c = "-"
    THEN [err |-> "", list |-> Append(list, cond({}, {}, TRUE))]
    ELSE [err |-> "", list |-> list]

\* A slip: a term y, which meets every id, adds no condition.
FlushTerm_SkipY(p, i, c, start, wid, bits, result, list) ==
    IF c = "+" /\ result = FALSE THEN [err |-> ErrPlusAfterMinus, list |-> list]
    ELSE IF i > 0
    THEN LET n == (i - start) * wid IN
         IF n > 64 THEN [err |-> ErrTooLong, list |-> list]
         ELSE IF n <= 0 THEN [err |-> ErrSyntax, list |-> list]
         ELSE IF p[start + 1] = "y" THEN [err |-> "", list |-> list]
         ELSE LET mask == Dec(Shl({0}, n))
              IN [err |-> "", list |-> Append(list, cond(mask, bits, result))]
    ELSE IF c = "-"
    THEN [err |-> "", list |-> Append(list, cond({}, {}, TRUE))]
    ELSE [err |-> "", list |-> list]

\* One +/- operator at index i (0-based, as in the source): flush the term.
FlushTerm(p, i, c, start, wid, bits, result, list) ==
    IF c = "+" /\ result = FALSE THEN [err |-> ErrPlusAfterMinus, list |-> list]
    ELSE IF i > 0
    THEN LET n == (i - start) * wid IN
         IF n > 64 THEN [err |-> ErrTooLong, list |-> list]
         ELSE IF n <= 0 THEN [err |-> ErrSyntax, list |-> list]
         ELSE LET n2 == IF p[start + 1] = "y" THEN 0 ELSE n
                  mask == Dec(Shl({0}, n2))
              IN [err |-> "", list |-> Append(list, cond(mask, bits, result))]
    ELSE IF c = "-"
    THEN [err |-> "", list |-> Append(list, cond({}, {}, TRUE))]
    ELSE [err |-> "", list |-> list]

\* The variables of the loop of New, and the error it returned with.
LoopState(start, wid, bits, result, list, e) ==
    [start |-> start, wid |-> wid, bits |-> bits, result |-> result,
     list |-> list, err |-> e]

\* The iteration at index i of the loop "for i := 0; i <= len(p); i++" of
\* New, on the loop variables st.
ParseStep(p, i, st) ==
    LET c == IF i < Len(p) THEN p[i + 1] ELSE "-" IN
    IF i = st.start /\ st.wid = 1 /\ c = "x"
    THEN [st EXCEPT !.start = i + 1, !.wid = 4]
    ELSE IF c \in DecDigits \ {"0", "1"}
    THEN IF st.wid # 4 THEN [st EXCEPT !.err = ErrSyntax]
         ELSE [st EXCEPT !.bits = BitOr(Shl(st.bits, st.wid), U64(DigitVal(c)))]
    ELSE IF c \in {"0", "1"}
    THEN [st EXCEPT !.bits = BitOr(Shl(st.bits, st.wid), U64(DigitVal(c)))]
    ELSE IF c \in HexLetters
    THEN IF st.wid # 4 THEN [st EXCEPT !.err = ErrSyntax]
         ELSE [st EXCEPT !.bits = BitOr(Shl(st.bits, 4), U64(LetterVal(c)))]
    ELSE IF c = "y"
    THEN IF i + 1 < Len(p) /\ p[i + 2] \in {"0", "1"}
         THEN [st EXCEPT !.err = ErrSyntax]
         ELSE [st EXCEPT !.bits = {}]
    ELSE IF c \in {"+", "-"}
    THEN LET f == FlushTerm(p, i, c, st.start, st.wid, st.bits, st.result, st.list) IN
         IF f.err # "" THEN [st EXCEPT !.err = f.err]
         ELSE LoopState(i + 1, 1, {}, c = "+", f.list, "")
    ELSE [st EXCEPT !.err = ErrSyntax]

\* The iterations lo .. hi-1 of the loop, begun with the loop variables st
\* and ended by the first error: the first half of them, then the second
\* half (this keeps the evaluation shallow for long patterns).
RECURSIVE ParseLoop(_, _, _, _)
ParseLoop(p, lo, hi, st) ==
    IF hi <= lo \/ st.err # "" THEN st
    ELSE IF hi = lo + 1 THEN ParseStep(p, lo, st)
    ELSE LET mid == (lo + hi) \div 2
         IN ParseLoop(p, mid, hi, ParseLoop(p, lo, mid, st))

\* func New(pattern string) (*Matcher, error)
New(pat) ==
    IF pat = <<>> THEN [m |-> NilMatcher, err |-> ""]
    ELSE
    LET sv == StripV(pat, FALSE) IN
    IF ~sv.ok THEN Failure(ErrSyntax)
    ELSE
    LET sb == StripBang(sv.p, TRUE) IN
    IF ~sb.ok THEN Failure(ErrSyntax)
    ELSE
    LET al == AliasN(sb.p, sb.enable)
        r == ParseLoop(al.p, 0, Len(al.p) + 1, LoopState(0, 1, {}, TRUE, <<>>, ""))
    IN IF r.err # "" THEN Failure(r.err)
       ELSE [m |-> [nil |-> FALSE, verbose |-> sv.verbose,
                    enable |-> al.enable, list |-> r.list],
             err |-> ""]

----------------------------------------------------------------------------
(* internal/bisect: the Matcher queries *)

\* A slip: the list scanned from the first condition, so the first wins.
ScanUp(list, id, i) ==
    LET S == {j \in 1 .. i : BitAnd(id, list[j].mask) = list[j].bits} IN
    IF S = {} THEN 0 ELSE SetMin(S)

\* The loop "for i := len(m.list) - 1; i >= 0; i--": the index (1-based) of
\* the first condition met scanning down from i, or 0 when there is none.
RECURSIVE ScanDown(_, _, _)
ScanDown(list, id, i) ==
    IF i < 1 THEN 0
    ELSE IF BitAnd(id, list[i].mask) = list[i].bits THEN i
    ELSE ScanDown(list, id, i - 1)

\* A slip: the nil Matcher treated as one that enables nothing.
ShouldEnable_NilDisables(mt, id) ==
    IF mt.nil THEN FALSE
    ELSE LET i == ScanDown(mt.list, id, Len(mt.list)) IN
         IF i # 0 THEN mt.list[i].result = mt.enable
         ELSE FALSE = mt.enable

\* func (m *Matcher) ShouldEnable(id uint64) bool
ShouldEnable(mt, id) ==
    IF mt.nil THEN TRUE
    ELSE LET i == ScanDown(mt.list, id, Len(mt.list)) IN
         IF i # 0 THEN mt.list[i].result = mt.enable
         ELSE FALSE = mt.enable

\* func (m *Matcher) ShouldReport(id uint64) bool
ShouldReport(mt, id) ==
    IF mt.nil THEN FALSE
    ELSE LET i == ScanDown(mt.list, id, Len(mt.list)) IN
         IF i # 0 THEN mt.list[i].result
         ELSE FALSE

\* func (m *Matcher) Verbose() bool: "return m.verbose" dereferences m
\* without the nil test the other two methods make, so a nil m panics (a
\* nil pointer dereference); otherwise the result is the verbose field.
VerbosePanics(mt) == mt.nil

Verbose(mt) == mt.verbose

----------------------------------------------------------------------------
(* internal/bisect: the inputs *)

Alphabet == {"v", "!", "y", "n", "x", "0", "1", "+", "-"}

\* The patterns of the package doc comment, and hex and invalid terms.
DocPatterns ==
    { <<"0", "1", "+", "1", "0">>,
      <<"+", "0", "1", "+", "1", "0">>,
      <<"0", "1", "+", "1", "0", "-", "1", "0", "0", "1">>,
      <<"-", "0", "1", "-", "1", "0", "0", "0">>,
      <<"y", "-", "0", "1", "-", "1", "0", "0", "0">>,
      <<"0", "+", "1", "-", "0", "1", "+", "0", "0", "1">>,
      <<"v", "0", "1", "+", "1", "0", "-", "1", "0", "0", "1">>,
      <<"!", "0", "1", "+", "1", "0", "-", "1", "0", "0", "1">>,
      <<"x", "9">>, <<"x", "a", "-", "x", "1", "A">>, <<"x", "g">>, <<"9">> }

Patterns ==
    UNION {[1 .. n -> Alphabet] : n \in 0 .. MaxPatLen} \cup DocPatterns

\* The ids queried: the small ones, 0b1001 of the package doc, 1<<63 and
\* the id of 64 ones.
Ids == SUBSET (0 .. (IdBits - 1)) \cup {{0, 3}, {WordBits - 1}, Word}

NoQuery == [op |-> "none", id |-> {}, ret |-> FALSE, panic |-> FALSE]

----------------------------------------------------------------------------
(* internal/bisect: the state machine *)

\* No call is being inlined.
NoResult == [strategy |-> "none", literalized |-> FALSE, decls |-> <<>>, body |-> <<>>]

IdleInline ==
    /\ iargs = <<>>
    /\ ibody = <<>>
    /\ iopts = [exprBody |-> FALSE, spliceable |-> FALSE]
    /\ ipc = "idle"
    /\ ires = NoResult
    /\ itrace = <<>>

\* No analysis pass runs.
IdleAnalyzer ==
    /\ which = "none"
    /\ phase = "idle"
    /\ step = 0
    /\ facts = {}
    /\ inlinableFuncs = <<>>
    /\ fileContent = <<>>
    /\ diags = <<>>
    /\ visits = <<>>
    /\ importCalls = <<>>
    /\ readCalls = <<>>

\* No line is written.
NoSource == [how |-> "none", id |-> {}, idstr |-> <<>>, pre |-> <<>>,
             suf |-> <<>>, text |-> <<>>]

NoCut == [short |-> <<>>, id |-> {}, ok |-> FALSE]

\* No call is being rewritten.
IdleRewrite ==
    /\ rin = [kind |-> "none"]
    /\ rout = [kind |-> "none"]
    /\ rpc = "idle"

\* The nil slice.
NilSlice == [arr |-> 0, len |-> 0]

\* No server is made.
IdleServer ==
    /\ heap = <<>>
    /\ sessions = NilSlice
    /\ life = <<>>
    /\ iterSeq = NilSlice
    /\ atCall = [called |-> FALSE, live |-> {}]
    /\ yielded = [done |-> FALSE, got |-> <<>>]

\* No use of a constant is visited.
NoUse == [which |-> "none"]

NoReport == [reported |-> FALSE]

\* The nil *goFixInlineConstFact: the constant has no entry and no fact.
NilFact == [RHSName |-> <<>>, RHSPkgName |-> <<>>, RHSPkgPath |-> ""]

IdleConst ==
    /\ cuse = NoUse
    /\ inlinableConsts = NilFact
    /\ creport = NoReport
    /\ cpc = "idle"

\* No declaration is visited.
NoDecl == [tok |-> "none", doc |-> <<>>, specDoc |-> <<>>]

IdleDirective ==
    /\ decl = NoDecl
    /\ candidate = FALSE
    /\ dpc = "idle"

\* The reply without a wire error and without contents.
NoReply == [kind |-> "none", code |-> 0, message |-> "", data |-> <<>>,
            uri |-> "", mime |-> ""]

\* No request was served.
NoRead == [uri |-> "", registered |-> FALSE, invoked |-> FALSE, reply |-> NoReply]

IdleResource ==
    /\ resources = <<>>
    /\ nreads = 0
    /\ rlast = NoRead

IdleMarker ==
    /\ msrc = NoSource
    /\ line = <<>>
    /\ cut = NoCut
    /\ mpc = "idle"

InitBisect ==
    /\ pattern \in Patterns
    /\ bpc = "start"
    /\ m = NilMatcher
    /\ err = ""
    /\ last = NoQuery
    /\ IdleAnalyzer
    /\ IdleInline
    /\ IdleMarker
    /\ IdleRewrite
    /\ IdleServer
    /\ IdleConst
    /\ IdleDirective
    /\ IdleResource

\* m, err := New(pattern)
CallNew ==
    /\ bpc = "start"
    /\ LET r == New(pattern) IN
        /\ m' = r.m
        /\ err' = r.err
    /\ bpc' = "made"
    /\ UNCHANGED <<pattern, last>>
    /\ UNCHANGED notBisectVars

\* var m Matcher (the type is exported; its zero value has no condition).
DeclareZero ==
    /\ bpc = "start"
    /\ pattern = <<>>
    /\ m' = ZeroMatcher
    /\ err' = ""
    /\ bpc' = "zero"
    /\ UNCHANGED <<pattern, last>>
    /\ UNCHANGED notBisectVars

\* A slip: the query remembers that it was made, in the enable flag.
CallShouldEnable_Learns ==
    /\ bpc \in {"made", "zero"}
    /\ err = ""
    /\ \E id \in Ids :
         last' = [op |-> "ShouldEnable", id |-> id,
                  ret |-> ShouldEnable(m, id), panic |-> FALSE]
    /\ m' = [m EXCEPT !.enable = ~m.enable]
    /\ UNCHANGED <<pattern, bpc, err>>
    /\ UNCHANGED notBisectVars

\* m.ShouldEnable(id)
CallShouldEnable ==
    /\ bpc \in {"made", "zero"}
    /\ err = ""
    /\ \E id \in Ids :
         last' = [op |-> "ShouldEnable", id |-> id,
                  ret |-> ShouldEnable(m, id), panic |-> FALSE]
    /\ UNCHANGED <<pattern, bpc, m, err>>
    /\ UNCHANGED notBisectVars

\* m.ShouldReport(id)
CallShouldReport ==
    /\ bpc \in {"made", "zero"}
    /\ err = ""
    /\ \E id \in Ids :
         last' = [op |-> "ShouldReport", id |-> id,
                  ret |-> ShouldReport(m, id), panic |-> FALSE]
    /\ UNCHANGED <<pattern, bpc, m, err>>
    /\ UNCHANGED notBisectVars

\* m.Verbose(); a panic ends the program.
CallVerbose ==
    /\ bpc \in {"made", "zero"}
    /\ err = ""
    /\ IF VerbosePanics(m)
       THEN /\ last' = [op |-> "Verbose", id |-> {}, ret |-> FALSE, panic |-> TRUE]
            /\ bpc' = "panicked"
       ELSE /\ last' = [op |-> "Verbose", id |-> {}, ret |-> Verbose(m), panic |-> FALSE]
            /\ bpc' = bpc
    /\ UNCHANGED <<pattern, m, err>>
    /\ UNCHANGED notBisectVars

NextBisect ==
    \/ CallNew
    \/ DeclareZero
    \/ CallShouldEnable
    \/ CallShouldReport
    \/ CallVerbose

SpecBisect == InitBisect /\ [][NextBisect]_vars

----------------------------------------------------------------------------
(* The go:fix-inline analyzers: gofix (gopls/internal/analysis/gofix) and  *)
(* inline (internal/refactor/inline/analyzer).  The inlining engine and    *)
(* the driver are outside: what inline.Inline, inline.AnalyzeCallee and    *)
(* pass.ReadFile return is an input of each step.                          *)

LocalFuncs == {"f1"}     \* functions declared in the package analyzed
ExtFuncs == {"g1"}      \* functions of imported packages
Funcs == LocalFuncs \cup ExtFuncs
NoFunc == "nofunc"              \* typeutil.StaticCallee returned nil
Files == {"a.go", "b.go"}
Contents == {"c1", "c2"}        \* what pass.ReadFile may return
ReadErr == "readerr"            \* pass.ReadFile returned an error
Absent == "absent"              \* the map has no entry for the key
NilCallee == "nil"
EngineErrs == {"e1", "e2"}      \* the error texts of inline.Inline

\* The *inline.Callee of a function.
Callee(fn) == fn

\* The outcomes of inline.Inline: an error, or a Result with its
\* Literalized flag.
Outcomes ==
    {[err |-> e, literalized |-> FALSE] : e \in EngineErrs}
      \cup {[err |-> "", literalized |-> b] : b \in BOOLEAN}

NoOutcome == [err |-> "", literalized |-> FALSE]

Diag(node, at, msg, fixes) ==
    [node |-> node, at |-> at, msg |-> msg, fixes |-> fixes]

\* A slip: the file is read whether or not it is in the map.
readFile_Reread(fc, file, rr) ==
    IF rr = ReadErr
    THEN [content |-> Absent, err |-> TRUE, fileContent |-> fc, read |-> TRUE]
    ELSE [content |-> rr, err |-> FALSE,
          fileContent |-> [fc EXCEPT ![file] = rr], read |-> TRUE]

\* readFile: the memoized file read; rr is what pass.ReadFile returns if it
\* is called.
readFile(fc, file, rr) ==
    IF fc[file] # Absent
    THEN [content |-> fc[file], err |-> FALSE, fileContent |-> fc, read |-> FALSE]
    ELSE IF rr = ReadErr
    THEN [content |-> Absent, err |-> TRUE, fileContent |-> fc, read |-> TRUE]
    ELSE [content |-> rr, err |-> FALSE,
          fileContent |-> [fc EXCEPT ![file] = rr], read |-> TRUE]

\* A slip: a literalized result reported like any other.
InlineReport_Literalized(node, out) ==
    IF out.err # ""
    THEN <<Diag(node, "Lparen", out.err, <<>>)>>
    ELSE <<Diag(node, "Call", "should be inlined", <<"Inline call">>)>>

\* A slip: the error of the engine dropped.
InlineReport_ErrDropped(node, out) ==
    IF out.err # "" THEN <<>>
    ELSE IF out.literalized THEN <<>>
    ELSE <<Diag(node, "Call", "should be inlined", <<"Inline call">>)>>

\* What inlineCall reports once inline.Inline has returned out: the error at
\* the left parenthesis, nothing for a literalized result, else the fix.
InlineReport(node, out) ==
    IF out.err # ""
    THEN <<Diag(node, "Lparen", out.err, <<>>)>>
    ELSE IF out.literalized THEN <<>>
    ELSE <<Diag(node, "Call", "should be inlined", <<"Inline call">>)>>

\* Pass 1 at a FuncDecl of fn in file: directive says whether its doc has
\* //go:fix inline, analyzeOK whether AnalyzeCallee succeeds.
FindFuncStep(fn, file, directive, rr, analyzeOK) ==
    LET node == step + 1
        rf == readFile(fileContent, file, rr)
    IN
    /\ phase = "find"
    /\ step < MaxNodes
    /\ \A k \in 1 .. Len(visits) : ~(visits[k].kind = "decl" /\ visits[k].fn = fn)
    /\ step' = node
    /\ visits' = Append(visits, [kind |-> "decl", fn |-> fn, file |-> file,
                                 called |-> FALSE, out |-> NoOutcome])
    /\ IF ~directive
       THEN UNCHANGED <<facts, inlinableFuncs, fileContent, diags, readCalls>>
       ELSE /\ fileContent' = rf.fileContent
            /\ readCalls' = IF rf.read
                            THEN [readCalls EXCEPT ![file] = @ + 1]
                            ELSE readCalls
            /\ IF rf.err
               THEN /\ diags' = Append(diags,
                          Diag(node, "DocPos", "cannot read source file", <<>>))
                    /\ UNCHANGED <<facts, inlinableFuncs>>
               ELSE IF ~analyzeOK
               THEN /\ diags' = Append(diags,
                          Diag(node, "DocPos", "invalid inlining candidate", <<>>))
                    /\ UNCHANGED <<facts, inlinableFuncs>>
               ELSE /\ facts' = facts \cup {fn}
                    /\ inlinableFuncs' = [inlinableFuncs EXCEPT ![fn] = Callee(fn)]
                    /\ UNCHANGED diags
    /\ UNCHANGED <<which, phase, importCalls>>
    /\ UNCHANGED notAnalyzerVars

\* Pass 2 at a CallExpr in file whose static callee is fn: out is what
\* inline.Inline returns if it is called.
InlineCallStep(fn, file, rr, out) ==
    LET node == step + 1
        ok == fn # NoFunc /\ inlinableFuncs[fn] # Absent
        asked == fn # NoFunc /\ ~ok
        imported == asked /\ fn \in facts
        callee == IF ok THEN inlinableFuncs[fn]
                  ELSE IF imported THEN Callee(fn) ELSE NilCallee
        rf == readFile(fileContent, file, rr)
        called == callee # NilCallee /\ ~rf.err
    IN
    /\ phase = "inline"
    /\ step < MaxNodes
    /\ step' = node
    /\ visits' = Append(visits, [kind |-> "call", fn |-> fn, file |-> file,
                                 called |-> called,
                                 out |-> IF called THEN out ELSE NoOutcome])
    /\ inlinableFuncs' = IF imported
                         THEN [inlinableFuncs EXCEPT ![fn] = callee]
                         ELSE inlinableFuncs
    /\ importCalls' = IF asked
                      THEN [importCalls EXCEPT ![fn] = @ + 1]
                      ELSE importCalls
    /\ IF callee = NilCallee
       THEN UNCHANGED <<fileContent, readCalls, diags>>
       ELSE /\ fileContent' = rf.fileContent
            /\ readCalls' = IF rf.read
                            THEN [readCalls EXCEPT ![file] = @ + 1]
                            ELSE readCalls
            /\ IF rf.err
               THEN diags' = Append(diags,
                        Diag(node, "Lparen", "cannot read source file", <<>>))
               ELSE diags' = diags \o InlineReport(node, out)
    /\ UNCHANGED <<which, phase, facts>>
    /\ UNCHANGED notAnalyzerVars

\* gofix: (*analyzer).findFunc
GofixFindFunc ==
    /\ which = "gofix"
    /\ \E fn \in LocalFuncs, file \in Files, directive \in BOOLEAN,
          rr \in Contents \cup {ReadErr}, analyzeOK \in BOOLEAN :
         FindFuncStep(fn, file, directive, rr, analyzeOK)

\* gofix: (*analyzer).inlineCall
GofixInlineCall ==
    /\ which = "gofix"
    /\ \E fn \in Funcs \cup {NoFunc}, file \in Files,
          rr \in Contents \cup {ReadErr}, out \in Outcomes :
         InlineCallStep(fn, file, rr, out)

\* inline: the FuncDecl case of pass 1 of run
AnalyzerFindFunc ==
    /\ which = "inline"
    /\ \E fn \in LocalFuncs, file \in Files, directive \in BOOLEAN,
          rr \in Contents \cup {ReadErr}, analyzeOK \in BOOLEAN :
         FindFuncStep(fn, file, directive, rr, analyzeOK)

\* inline: the CallExpr case of pass 2 of run
AnalyzerInlineCall ==
    /\ which = "inline"
    /\ \E fn \in Funcs \cup {NoFunc}, file \in Files,
          rr \in Contents \cup {ReadErr}, out \in Outcomes :
         InlineCallStep(fn, file, rr, out)

\* Pass 1 is over: a.find() returns, a.inline() begins.
EndFind ==
    /\ phase = "find"
    /\ phase' = "inline"
    /\ UNCHANGED <<which, step, facts, inlinableFuncs, fileContent, diags,
                   visits, importCalls, readCalls>>
    /\ UNCHANGED notAnalyzerVars

\* A slip: the declarations are looked for once more after the calls.
EndInline_FindAgain ==
    /\ phase = "inline"
    /\ phase' = "find"
    /\ UNCHANGED <<which, step, facts, inlinableFuncs, fileContent, diags,
                   visits, importCalls, readCalls>>
    /\ UNCHANGED notAnalyzerVars

\* Pass 2 is over: run returns nil, nil.
EndInline ==
    /\ phase = "inline"
    /\ phase' = "done"
    /\ UNCHANGED <<which, step, facts, inlinableFuncs, fileContent, diags,
                   visits, importCalls, readCalls>>
    /\ UNCHANGED notAnalyzerVars

\* No matcher is in use.
IdleBisect ==
    /\ pattern = <<>>
    /\ bpc = "idle"
    /\ m = NilMatcher
    /\ err = ""
    /\ last = NoQuery

\* run: the maps are made empty; the facts of the imported packages are
\* those the driver has.
InitAnalyzer ==
    /\ which \in {"gofix", "inline"}
    /\ phase = "find"
    /\ step = 0
    /\ facts \in SUBSET ExtFuncs
    /\ inlinableFuncs = [fn \in Funcs |-> Absent]
    /\ fileContent = [f \in Files |-> Absent]
    /\ diags = <<>>
    /\ visits = <<>>
    /\ importCalls = [fn \in Funcs |-> 0]
    /\ readCalls = [f \in Files |-> 0]
    /\ IdleBisect
    /\ IdleInline
    /\ IdleMarker
    /\ IdleRewrite
    /\ IdleServer
    /\ IdleConst
    /\ IdleDirective
    /\ IdleResource

NextAnalyzer ==
    \/ GofixFindFunc
    \/ GofixInlineCall
    \/ AnalyzerFindFunc
    \/ AnalyzerInlineCall
    \/ EndFind
    \/ EndInline

SpecAnalyzer == InitAnalyzer /\ [][NextAnalyzer]_vars

----------------------------------------------------------------------------
(* The inlining engine (internal/refactor/inline): the caller-site binder  *)
(* and the choice of strategy.  A call f(a1, ..., an) is given by which of *)
(* its arguments have side effects; the callee by the order in which its   *)
(* body uses its parameters.                                               *)

\* The places of the body that use parameter i.
Uses(body, i) == {k \in 1 .. Len(body) : body[k] = i}

UsePos(body, i) == CHOOSE k \in Uses(body, i) : TRUE

\* A slip: an argument used once is substituted wherever the body uses it.
Substitutable_UsedOnce(args, body, i) ==
    \/ ~args[i]
    \/ Cardinality(Uses(body, i)) = 1

\* Whether argument i can be substituted in place: it has no side effect, or
\* the body evaluates it exactly once and substituting it does not move its
\* evaluation after that of a later argument.
RECURSIVE Substitutable(_, _, _)
Substitutable(args, body, i) ==
    \/ ~args[i]
    \/ /\ Cardinality(Uses(body, i)) = 1
       /\ \A j \in (i + 1) .. Len(args) :
             args[j] => /\ Substitutable(args, body, j)
                        /\ UsePos(body, j) > UsePos(body, i)

\* Bind: one Binding per argument, in the order of the arguments.
Bind(args, body) ==
    [i \in 1 .. Len(args) |->
        IF Substitutable(args, body, i) THEN "subst" ELSE "temp"]

\* TrySubstitute, TrySpliceStatements, TryLiteralize, in this order.
Strategy(bindings, opts) ==
    IF opts.exprBody /\ \A i \in DOMAIN bindings : bindings[i] = "subst"
    THEN "substitute"
    ELSE IF opts.spliceable THEN "splice"
    ELSE "literalize"

\* The temporaries declared before the body: the must-bind arguments, in
\* the order of the argument list.
Decls(bindings) ==
    SelectSeq([i \in 1 .. Len(bindings) |-> i], LAMBDA i : bindings[i] = "temp")

\* Inline: the Result.  decls are the arguments evaluated before the body
\* (temporaries, or the arguments of the function literal); body tells for
\* each use of a parameter whether the argument expression stands there.
Inline(args, body, opts) ==
    LET b == Bind(args, body)
        st == Strategy(b, opts)
    IN IF st = "literalize"
       THEN [strategy |-> st, literalized |-> TRUE,
             decls |-> [i \in 1 .. Len(args) |-> i],
             body |-> [k \in 1 .. Len(body) |-> [arg |-> body[k], expr |-> FALSE]]]
       ELSE [strategy |-> st, literalized |-> FALSE,
             decls |-> Decls(b),
             body |-> [k \in 1 .. Len(body) |->
                          [arg |-> body[k], expr |-> b[body[k]] = "subst"]]]

\* The arguments with side effects that running the result evaluates, in
\* the order it evaluates them.
Run(args, res) ==
    LET evald == SelectSeq(res.body, LAMBDA it : it.expr /\ args[it.arg]) IN
    SelectSeq(res.decls, LAMBDA i : args[i])
      \o [k \in 1 .. Len(evald) |-> evald[k].arg]

InitInline ==
    /\ iargs \in UNION {[1 .. n -> BOOLEAN] : n \in 0 .. MaxArgs}
    /\ ibody \in UNION {[1 .. n -> 1 .. Len(iargs)] : n \in 0 .. MaxUses}
    /\ iopts \in [exprBody : BOOLEAN, spliceable : BOOLEAN]
    /\ ipc = "call"
    /\ ires = NoResult
    /\ itrace = <<>>
    /\ IdleBisect
    /\ IdleAnalyzer
    /\ IdleMarker
    /\ IdleRewrite
    /\ IdleServer
    /\ IdleConst
    /\ IdleDirective
    /\ IdleResource

\* res, err := inline.Inline(caller, callee, opts)
DoInline ==
    /\ ipc = "call"
    /\ ires' = Inline(iargs, ibody, iopts)
    /\ ipc' = "inlined"
    /\ UNCHANGED <<iargs, ibody, iopts, itrace>>
    /\ UNCHANGED notInlineVars

\* The rewritten call is executed.
DoRun ==
    /\ ipc = "inlined"
    /\ itrace' = Run(iargs, ires)
    /\ ipc' = "ran"
    /\ UNCHANGED <<iargs, ibody, iopts, ires>>
    /\ UNCHANGED notInlineVars

NextInline ==
    \/ DoInline
    \/ DoRun

SpecInline == InitInline /\ [][NextInline]_vars

----------------------------------------------------------------------------
(* internal/bisect: Marker, AppendMarker, CutMarker *)

\* CutMarker: prefix := "[bisect-match "
CutPrefix == <<"[", "b", "i", "s", "e", "c", "t", "-", "m", "a", "t", "c", "h", " ">>

\* AppendMarker: const prefix = "[bisect-match 0x"
AppendPrefix == CutPrefix \o <<"0", "x">>

\* The string indexed in AppendMarker: "0123456789abcdef"
HexDigits == <<"0", "1", "2", "3", "4", "5", "6", "7",
               "8", "9", "a", "b", "c", "d", "e", "f">>

\* The number of hex digits AppendMarker writes.
MarkerDigits == 16

BitAt(id, b) == IF b \in id THEN 1 ELSE 0

\* A slip: the low four bits, id & 15.
TopNibble_Low(id) ==
    BitAt(id, 0) + 2 * BitAt(id, 1) + 4 * BitAt(id, 2) + 8 * BitAt(id, 3)

\* id >> 60
TopNibble(id) ==
    BitAt(id, 60) + 2 * BitAt(id, 61) + 4 * BitAt(id, 62) + 8 * BitAt(id, 63)

\* The loop of AppendMarker from iteration i on: the digits it writes.
RECURSIVE AppendDigits(_, _)
AppendDigits(id, i) ==
    IF i >= MarkerDigits THEN <<>>
    ELSE <<HexDigits[TopNibble(id) + 1]>> \o AppendDigits(Shl(id, 4), i + 1)

AppendMarker(dst, id) == dst \o AppendPrefix \o AppendDigits(id, 0) \o <<"]">>

Marker(id) == AppendMarker(<<>>, id)

\* line[a:b] of Go, with 0-based a and b.
Slice(s, a, b) == SubSeq(s, a + 1, b)

\* The first loop of CutMarker: the index of the first prefix, or -1 where
\* CutMarker returns line, 0, false.
RECURSIVE FindPrefix(_, _)
FindPrefix(ln, i) ==
    IF i >= Len(ln) - Len(CutPrefix) THEN -1
    ELSE IF ln[i + 1] = "[" /\ Slice(ln, i, i + Len(CutPrefix)) = CutPrefix
         THEN i
         ELSE FindPrefix(ln, i + 1)

\* The second loop of CutMarker: j moves to the first ] or to len(line).
ScanBracket(ln, j) ==
    SetMin({k \in j .. Len(ln) : k = Len(ln) \/ ln[k + 1] = "]"})

\* What the switch of the hex loop ors into id; it has no default case.
CutHexVal(c) ==
    IF c \in DecDigits THEN U64(DigitVal(c))
    ELSE IF c \in HexLetters THEN U64(LetterVal(c))
    ELSE {}

\* The hex loop from index i on.
RECURSIVE ParseHex(_, _, _)
ParseHex(idstr, i, id) ==
    IF i >= Len(idstr) THEN [ok |-> TRUE, id |-> id]
    ELSE ParseHex(idstr, i + 1, BitOr(Shl(id, 4), CutHexVal(idstr[i + 1])))

\* A slip: the digit is or-ed in before the shift.
BinaryStep_OrFirst(c, id) ==
    IF c \notin {"0", "1"} THEN [ok |-> FALSE, id |-> {}]
    ELSE [ok |-> TRUE, id |-> Shl(BitOr(id, U64(DigitVal(c))), 1)]

\* One iteration of the binary loop on the character c.
BinaryStep(c, id) ==
    IF c \notin {"0", "1"} THEN [ok |-> FALSE, id |-> {}]
    ELSE [ok |-> TRUE, id |-> BitOr(Shl(id, 1), U64(DigitVal(c)))]

\* The iterations lo .. hi-1 of the binary loop, begun with id: the first
\* half of them, then the second half (this keeps the evaluation shallow
\* for 64 digits).
RECURSIVE ParseBinary(_, _, _, _)
ParseBinary(idstr, lo, hi, id) ==
    IF hi <= lo THEN [ok |-> TRUE, id |-> id]
    ELSE IF hi = lo + 1 THEN BinaryStep(idstr[lo + 1], id)
    ELSE LET mid == (lo + hi) \div 2
             r == ParseBinary(idstr, lo, mid, id)
         IN IF ~r.ok THEN r ELSE ParseBinary(idstr, mid, hi, r.id)

\* "Parse id."
ParseId(idstr) ==
    IF Len(idstr) >= 3 /\ Slice(idstr, 0, 2) = <<"0", "x">>
    THEN IF Len(idstr) > 2 + 16 THEN [ok |-> FALSE, id |-> {}]
         ELSE ParseHex(idstr, 2, {})
    ELSE IF idstr = <<>> \/ Len(idstr) > 64 THEN [ok |-> FALSE, id |-> {}]
         ELSE ParseBinary(idstr, 0, Len(idstr), {})

\* A slip: a space is removed on both sides of the marker.
Shorten_BothSides(ln, i, j) ==
    LET i2 == IF i > 0 /\ ln[i] = " " THEN i - 1 ELSE i
        j2 == IF j + 1 < Len(ln) /\ ln[j + 2] = " " THEN j + 2 ELSE j + 1
    IN Slice(ln, 0, i2) \o Slice(ln, j2, Len(ln))

\* "Construct shortened line": the marker is line[i:j+1].
Shorten(ln, i, j) ==
    LET j1 == j + 1
        i2 == IF i > 0 /\ ln[i] = " " THEN i - 1 ELSE i
        j2 == IF i > 0 /\ ln[i] = " " THEN j1
              ELSE IF j1 < Len(ln) /\ ln[j1 + 1] = " " THEN j1 + 1 ELSE j1
    IN Slice(ln, 0, i2) \o Slice(ln, j2, Len(ln))

NotFound(ln) == [short |-> ln, id |-> {}, ok |-> FALSE]

CutMarker(ln) ==
    LET i == FindPrefix(ln, 0) IN
    IF i < 0 THEN NotFound(ln)
    ELSE LET j == ScanBracket(ln, i + Len(CutPrefix)) IN
         IF j >= Len(ln) THEN NotFound(ln)
         ELSE LET r == ParseId(Slice(ln, i + Len(CutPrefix), j)) IN
              IF ~r.ok THEN NotFound(ln)
              ELSE [short |-> Shorten(ln, i, j), id |-> r.id, ok |-> TRUE]

----------------------------------------------------------------------------
(* internal/bisect: the markers written and cut *)

\* What stands before and after the marker on a line.
Affixes ==
    { <<>>, <<" ">>, <<"x">>, <<"x", " ">>, <<" ", "y">>, <<"[">>, <<"]">>,
      CutPrefix \o <<"1", "]", " ">> }

IdAlphabet == {"0", "1", "x", "a", "F", "g"}

Repeat(c, n) == [k \in 1 .. n |-> c]

\* Marker contents beyond MaxIdLen: the forms of the package doc, a 0b
\* form, and the longest contents accepted and the shortest refused.
DocIdStrs ==
    { <<"0", "x", "1", "2", "3", "4">>,
      <<"0", "1", "0", "1", "0", "1">>,
      <<"0", "b", "1", "0", "1">>,
      <<"0", "x">> \o Repeat("f", 16),
      <<"0", "x">> \o Repeat("f", 17),
      Repeat("1", 64),
      Repeat("1", 65) }

IdStrs ==
    UNION {[1 .. n -> IdAlphabet] : n \in 0 .. MaxIdLen} \cup DocIdStrs

\* The ids given to Marker.
MarkerIds == Ids \cup {{60}, {2, 5, 63}, Word \ {0}}

InitMarker ==
    /\ msrc = NoSource
    /\ line = <<>>
    /\ cut = NoCut
    /\ mpc = "start"
    /\ IdleBisect
    /\ IdleAnalyzer
    /\ IdleInline
    /\ IdleRewrite
    /\ IdleServer
    /\ IdleConst
    /\ IdleDirective
    /\ IdleResource

\* text := Marker(id)
CallMarker ==
    /\ mpc = "start"
    /\ \E id \in MarkerIds :
          msrc' = [how |-> "Marker", id |-> id, idstr |-> <<>>, pre |-> <<>>,
                   suf |-> <<>>, text |-> Marker(id)]
    /\ mpc' = "marked"
    /\ UNCHANGED <<line, cut>>
    /\ UNCHANGED notMarkerVars

\* The program prints a report line holding the marker.
PrintLine ==
    /\ mpc = "marked"
    /\ \E pre \in Affixes, suf \in Affixes :
          /\ msrc' = [msrc EXCEPT !.pre = pre, !.suf = suf]
          /\ line' = pre \o msrc.text \o suf
    /\ mpc' = "line"
    /\ UNCHANGED cut
    /\ UNCHANGED notMarkerVars

\* A line comes from elsewhere: a marker written by hand, closed by ] or not.
WriteLine ==
    /\ mpc = "start"
    /\ \E idstr \in IdStrs, pre \in Affixes, suf \in Affixes, closed \in BOOLEAN :
          LET text == CutPrefix \o idstr \o (IF closed THEN <<"]">> ELSE <<>>) IN
          /\ msrc' = [how |-> IF closed THEN "closed" ELSE "open", id |-> {},
                      idstr |-> idstr, pre |-> pre, suf |-> suf, text |-> text]
          /\ line' = pre \o text \o suf
    /\ mpc' = "line"
    /\ UNCHANGED cut
    /\ UNCHANGED notMarkerVars

\* short, id, ok := CutMarker(line)
CallCutMarker ==
    /\ mpc = "line"
    /\ cut' = CutMarker(line)
    /\ mpc' = "cut"
    /\ UNCHANGED <<msrc, line>>
    /\ UNCHANGED notMarkerVars

NextMarker ==
    \/ CallMarker
    \/ PrintLine
    \/ WriteLine
    \/ CallCutMarker

SpecMarker == InitMarker /\ [][NextMarker]_vars

----------------------------------------------------------------------------
(* The inlining engine: receivers, imports, n-ary results *)

\* The body of a callee refers to up to MaxRefs packages.
MaxRefs == 3

\* A callee returns up to MaxResults results.
MaxResults == 3

\* The type of an operand: T or *T.
TypeKinds == {"value", "pointer"}

\* An expression over the receiver operand x: x, &x or *x.
Expr(op, x) == [op |-> op, x |-> x]

\* The type of such an expression, x having the type t.
TypeOf(op, t) ==
    IF op = "id" THEN t
    ELSE IF op = "addr" THEN "pointer"
    ELSE "value"

\* A slip: the operand of the selector is taken as it stands.
BindReceiver_AsWritten(recv, form, argType, x) == Expr("id", x)

\* The receiver as the zero-th binding.  form is "sel" for x.m() and "expr"
\* for the method expression T.m(x) or (*T).m(x), whose first argument is
\* the receiver as written.  recv is the receiver type of m, argType the
\* type of x.
BindReceiver(recv, form, argType, x) ==
    IF form = "expr" THEN Expr("id", x)
    ELSE IF recv = "pointer" /\ argType = "value" THEN Expr("addr", x)
    ELSE IF recv = "value" /\ argType = "pointer" THEN Expr("deref", x)
    ELSE Expr("id", x)

\* Package paths, and the name each package declares (its default name).
Paths == {"testdata/b", "testdata/another/b", "testdata/c", "testdata/b0"}

DefaultName(path) ==
    CASE path = "testdata/b" -> <<"b">>
      [] path = "testdata/another/b" -> <<"b">>
      [] path = "testdata/c" -> <<"c">>
      [] path = "testdata/b0" -> <<"b", "0">>

Import(name, path) == [name |-> name, path |-> path]

Digit(i) == <<"0", "1", "2", "3", "4", "5", "6", "7", "8", "9">>[i + 1]

\* A slip: the suffix 0 is taken without looking whether it is free.
FreshName_Zero(base, taken) ==
    IF base \notin taken THEN base ELSE base \o <<Digit(0)>>

\* The default name if it is free, else the name with the least numeric
\* suffix that is free.
FreshName(base, taken) ==
    IF base \notin taken THEN base
    ELSE base \o <<Digit(SetMin({i \in 0 .. 9 : (base \o <<Digit(i)>>) \notin taken}))>>

NameOf(imports, path) == (CHOOSE imp \in imports : imp.path = path).name

\* The import fixer at reference k of refs: file is the set of imports the
\* file has by now, added the imports added so far, names the local name
\* given to each reference so far.
RECURSIVE FixImports(_, _, _, _, _)
FixImports(file, refs, k, added, names) ==
    IF k > Len(refs) THEN [added |-> added, names |-> names, file |-> file]
    ELSE IF \E imp \in file : imp.path = refs[k]
    THEN FixImports(file, refs, k + 1, added,
                    Append(names, NameOf(file, refs[k])))
    ELSE LET name == FreshName(DefaultName(refs[k]), {imp.name : imp \in file})
             new == Import(name, refs[k])
         IN FixImports(file \cup {new}, refs, k + 1, Append(added, new),
                       Append(names, name))

AddImports(imports, refs) == FixImports(imports, refs, 1, <<>>, <<>>)

\* Where the call stands: the only argument of another call, the right-hand
\* side of an assignment or of a definition, or a statement of its own.
Contexts == {"spread", "assign", "define", "stmt"}

Blanks(n) == [k \in 1 .. n |-> "_"]

\* A slip: the statement is kept as a call of a function literal.
Splice_Literal(ctx, lhs, results) ==
    CASE ctx = "spread" ->
           [kind |-> "call", lhs |-> <<>>, rhs |-> results, literal |-> FALSE, temps |-> 0]
      [] ctx \in {"assign", "define"} ->
           [kind |-> ctx, lhs |-> lhs, rhs |-> results, literal |-> FALSE, temps |-> 0]
      [] ctx = "stmt" ->
           [kind |-> "call", lhs |-> <<>>, rhs |-> <<>>, literal |-> TRUE, temps |-> 0]

\* The call of a callee whose body is "return results" is replaced by the
\* results: as the arguments of the enclosing call, as the right-hand side
\* of the assignment or definition, or assigned to blanks.
Splice(ctx, lhs, results) ==
    CASE ctx = "spread" ->
           [kind |-> "call", lhs |-> <<>>, rhs |-> results, literal |-> FALSE, temps |-> 0]
      [] ctx \in {"assign", "define"} ->
           [kind |-> ctx, lhs |-> lhs, rhs |-> results, literal |-> FALSE, temps |-> 0]
      [] ctx = "stmt" ->
           [kind |-> "assign", lhs |-> Blanks(Len(results)), rhs |-> results,
            literal |-> FALSE, temps |-> 0]

\* The imports a file may have: no name and no path twice.
ImportChoices ==
    { Import(<<"b">>, "testdata/b"), Import(<<"b">>, "testdata/c"),
      Import(<<"c">>, "testdata/c"), Import(<<"b", "0">>, "testdata/b0"),
      Import(<<"b", "0">>, "testdata/another/b"),
      Import(<<"b", "1">>, "testdata/c") }

ImportSets ==
    {f \in SUBSET ImportChoices :
        \A i1, i2 \in f : (i1.name = i2.name \/ i1.path = i2.path) => i1 = i2}

Operands == {"x", "ptr"}

ResultExprs == {"1", "2"}

LhsNames == <<"a", "b", "c", "d">>

\* The argument of a method expression has the receiver type.
ReceiverCalls ==
    {c \in [kind : {"receiver"}, recv : TypeKinds, form : {"sel", "expr"},
            argType : TypeKinds, x : Operands] :
        c.form = "expr" => c.argType = c.recv}

ImportCalls ==
    {[kind |-> "imports", imports |-> f, refs |-> r] :
        f \in ImportSets, r \in UNION {[1 .. n -> Paths] : n \in 0 .. MaxRefs}}

NaryCalls ==
    {[kind |-> "results", ctx |-> c, results |-> r] :
        c \in Contexts, r \in UNION {[1 .. n -> ResultExprs] : n \in 1 .. MaxResults}}

InitRewrite ==
    /\ rin \in ReceiverCalls \cup ImportCalls \cup NaryCalls
    /\ rout = [kind |-> "none"]
    /\ rpc = "call"
    /\ IdleBisect
    /\ IdleAnalyzer
    /\ IdleInline
    /\ IdleMarker
    /\ IdleServer
    /\ IdleConst
    /\ IdleDirective
    /\ IdleResource

\* Inlining a method call: the receiver is bound.
InlineMethod ==
    /\ rpc = "call"
    /\ rin.kind = "receiver"
    /\ rout' = [kind |-> "receiver",
                recv |-> BindReceiver(rin.recv, rin.form, rin.argType, rin.x)]
    /\ rpc' = "done"
    /\ UNCHANGED rin
    /\ UNCHANGED notRewriteVars

\* Inlining a call whose callee refers to packages: the imports are fixed.
InlineWithImports ==
    /\ rpc = "call"
    /\ rin.kind = "imports"
    /\ LET r == AddImports(rin.imports, rin.refs) IN
          rout' = [kind |-> "imports", added |-> r.added, names |-> r.names,
                   file |-> r.file]
    /\ rpc' = "done"
    /\ UNCHANGED rin
    /\ UNCHANGED notRewriteVars

\* Inlining a call of a callee that returns its results in one statement.
InlineNary ==
    /\ rpc = "call"
    /\ rin.kind = "results"
    /\ rout' = [kind |-> "results",
                stmt |-> Splice(rin.ctx, SubSeq(LhsNames, 1, Len(rin.results)),
                                rin.results)]
    /\ rpc' = "done"
    /\ UNCHANGED rin
    /\ UNCHANGED notRewriteVars

NextRewrite ==
    \/ InlineMethod
    \/ InlineWithImports
    \/ InlineNary

SpecRewrite == InitRewrite /\ [][NextRewrite]_vars

----------------------------------------------------------------------------
(* internal/mcp: the sessions of a Server *)

\* Up to MaxSessions clients connect to the server.
MaxSessions == 3

SessIds == 1 .. MaxSessions

\* The nil *ServerSession.
NilSession == 0

\* The addresses of backing arrays: the one of Server.sessions, the one of
\* the iterator, and one being allocated.
Addrs == {1, 2, 3}

\* cap(sl) and the elements sl[0], ..., sl[len-1] on the heap h.
Cap(h, sl) == IF sl.arr = 0 THEN 0 ELSE Len(h[sl.arr])

Elements(h, sl) == IF sl.arr = 0 THEN <<>> ELSE SubSeq(h[sl.arr], 1, sl.len)

Nils(n) == [k \in 1 .. n |-> NilSession]

\* append(sl, cc): in place while the capacity lasts, else in a new array at
\* the address free, of twice the capacity.
GoAppend(h, sl, cc, free) ==
    IF sl.len < Cap(h, sl)
    THEN [heap |-> [h EXCEPT ![sl.arr][sl.len + 1] = cc],
          slice |-> [arr |-> sl.arr, len |-> sl.len + 1]]
    ELSE LET newcap == IF Cap(h, sl) = 0 THEN 1 ELSE 2 * Cap(h, sl)
             arr == Elements(h, sl) \o <<cc>> \o Nils(newcap - sl.len - 1)
         IN [heap |-> [h EXCEPT ![free] = arr],
             slice |-> [arr |-> free, len |-> sl.len + 1]]

\* slices.DeleteFunc(sl, func(cc2) bool { return cc2 == cc }): the elements
\* kept move to the front of the same array and the rest of sl is cleared.
DeleteFunc(h, sl, cc) ==
    IF sl.arr = 0 THEN [heap |-> h, slice |-> sl]
    ELSE LET Keep(c) == c # cc
             kept == SelectSeq(Elements(h, sl), Keep)
             arr == kept \o Nils(sl.len - Len(kept))
                      \o SubSeq(h[sl.arr], sl.len + 1, Len(h[sl.arr]))
         IN [heap |-> [h EXCEPT ![sl.arr] = arr],
             slice |-> [arr |-> sl.arr, len |-> Len(kept)]]

\* A slip: the slice itself in place of a copy of it.
Clone_Alias(h, sl, free) == [heap |-> h, slice |-> sl]

\* slices.Clone(sl): the elements in a new array, at the address free.
Clone(h, sl, free) ==
    IF sl.arr = 0 THEN [heap |-> h, slice |-> sl]
    ELSE [heap |-> [h EXCEPT ![free] = Elements(h, sl)],
          slice |-> [arr |-> free, len |-> sl.len]]

\* An address no slice in use points to.
FreeAddr == SetMin(Addrs \ {sessions.arr, iterSeq.arr})

\* The arrays no slice points to are garbage.
Collect(h, sl, it) == [a \in Addrs |-> IF a \in {sl.arr, it.arr} THEN h[a] ELSE <<>>]

\* The sessions bound and not yet disconnected.
Live == {c \in SessIds : life[c] \in {"bound", "closing"}}

InitServer ==
    /\ heap = [a \in Addrs |-> <<>>]
    /\ sessions = NilSlice
    /\ life = [c \in SessIds |-> "none"]
    /\ iterSeq = NilSlice
    /\ atCall = [called |-> FALSE, live |-> {}]
    /\ yielded = [done |-> FALSE, got |-> <<>>]
    /\ IdleBisect
    /\ IdleAnalyzer
    /\ IdleInline
    /\ IdleMarker
    /\ IdleRewrite
    /\ IdleConst
    /\ IdleDirective
    /\ IdleResource

\* s.Connect(ctx, t): the new session cc is bound.
Connect ==
    /\ \E cc \in SessIds :
          /\ life[cc] = "none"
          /\ \A c \in SessIds : c < cc => life[c] # "none"
          /\ LET r == GoAppend(heap, sessions, cc, FreeAddr) IN
                /\ heap' = Collect(r.heap, r.slice, iterSeq)
                /\ sessions' = r.slice
          /\ life' = [life EXCEPT ![cc] = "bound"]
    /\ UNCHANGED <<iterSeq, atCall, yielded>>
    /\ UNCHANGED notServerVars

\* The client closes the connection of the session cc.
ClientClose ==
    /\ \E cc \in SessIds :
          /\ life[cc] = "bound"
          /\ life' = [life EXCEPT ![cc] = "closing"]
    /\ UNCHANGED <<heap, sessions, iterSeq, atCall, yielded>>
    /\ UNCHANGED notServerVars

\* The connection of cc is done: s.disconnect(cc).
Disconnect ==
    /\ \E cc \in SessIds :
          /\ life[cc] = "closing"
          /\ LET r == DeleteFunc(heap, sessions, cc) IN
                /\ heap' = Collect(r.heap, r.slice, iterSeq)
                /\ sessions' = r.slice
          /\ life' = [life EXCEPT ![cc] = "gone"]
    /\ UNCHANGED <<iterSeq, atCall, yielded>>
    /\ UNCHANGED notServerVars

\* cc.Wait() returns.
WaitReturns ==
    /\ \E cc \in SessIds :
          /\ life[cc] = "gone"
          /\ life' = [life EXCEPT ![cc] = "waited"]
    /\ UNCHANGED <<heap, sessions, iterSeq, atCall, yielded>>
    /\ UNCHANGED notServerVars

\* seq := s.Sessions()
CallSessions ==
    /\ LET r == Clone(heap, sessions, FreeAddr) IN
          /\ heap' = Collect(r.heap, sessions, r.slice)
          /\ iterSeq' = r.slice
    /\ atCall' = [called |-> TRUE, live |-> Live]
    /\ yielded' = [done |-> FALSE, got |-> <<>>]
    /\ UNCHANGED <<sessions, life>>
    /\ UNCHANGED notServerVars

\* for ss := range seq: the elements of the slice seq holds, as they are
\* now.
RangeSessions ==
    /\ atCall.called
    /\ yielded' = [done |-> TRUE, got |-> Elements(heap, iterSeq)]
    /\ UNCHANGED <<heap, sessions, life, iterSeq, atCall>>
    /\ UNCHANGED notServerVars

NextServer ==
    \/ Connect
    \/ ClientClose
    \/ Disconnect
    \/ WaitReturns
    \/ CallSessions
    \/ RangeSessions

SpecServer == InitServer /\ [][NextServer]_vars

----------------------------------------------------------------------------
(* The go:fix-inline analyzers: the report of a use of an inlinable        *)
(* constant A, declared as const A = B.                                    *)

\* The package the pass analyzes.
PassPkg == "p"

\* The packages A and B may be declared in.
ConstPkgs == {PassPkg, "testdata/b", "testdata/c"}

PkgName(path) == IF path = PassPkg THEN <<"p">> ELSE DefaultName(path)

\* The goFixInlineConstFact of const A = B with B declared in package path.
ConstFact(path) ==
    [RHSName |-> <<"B">>, RHSPkgName |-> PkgName(path), RHSPkgPath |-> path]

ConstFacts == {ConstFact(path) : path \in ConstPkgs}

\* A use of A: the analyzer that visits it, the package of A, the fact
\* ImportObjectFact has for A, the imports of the file of the use, whether
\* the name B means another object at the use, and whether the analyzed
\* package may import the package of B.  A use of a constant of another
\* package is qualified, so its file imports that package.
ConstUses ==
    {u \in [which : {"gofix", "inline"}, conPkg : {PassPkg, "testdata/c"},
            fact : ConstFacts \cup {NilFact}, imports : ImportSets,
            shadowed : BOOLEAN, canImport : BOOLEAN] :
        /\ u.conPkg = PassPkg => u.fact = NilFact
        /\ u.conPkg # PassPkg => \E imp \in u.imports : imp.path = u.conPkg
        /\ u.shadowed => (u.fact # NilFact => u.fact.RHSPkgPath = PassPkg)}

\* The edits of a suggested fix.
ImportEdit(imp) == [kind |-> "import", imp |-> imp]

ReplaceEdit(expr, newText) == [kind |-> "replace", expr |-> expr, text |-> newText]

\* analysisinternal.AddImport: the name under which the file imports the
\* package, or a new import under a name that is free in the file.
AddImport(imports, pkgname, path) ==
    IF \E imp \in imports : imp.path = path
    THEN [prefix |-> NameOf(imports, path) \o <<".">>, edits |-> <<>>]
    ELSE LET name == FreshName(pkgname, {imp.name : imp \in imports})
         IN [prefix |-> name \o <<".">>,
             edits |-> <<ImportEdit(Import(name, path))>>]

\* The entry of A after the lookup: the memo entry, else the imported fact.
Incon(entry, u) == IF entry # NilFact THEN entry ELSE u.fact

\* reportInline: the replacement of the expression is the last edit.
reportInline(expr, edits, newText) ==
    [reported |-> TRUE, edits |-> Append(edits, ReplaceEdit(expr, newText)),
     newText |-> newText]

\* gofix: inlineConst after the lookup of incon.
inlineConst(incon, u) ==
    IF incon = NilFact THEN NoReport
    ELSE IF PassPkg = incon.RHSPkgPath /\ u.shadowed THEN NoReport
    ELSE IF PassPkg # incon.RHSPkgPath /\ ~u.canImport THEN NoReport
    ELSE LET add == IF incon.RHSPkgPath # PassPkg
                    THEN AddImport(u.imports, incon.RHSPkgName, incon.RHSPkgPath)
                    ELSE [prefix |-> <<>>, edits |-> <<>>]
             expr == IF u.conPkg # PassPkg THEN "selector" ELSE "ident"
         IN reportInline(expr, add.edits, add.prefix \o incon.RHSName)

\* inline/analyzer: the import is not added yet.
maybeAddImportPath(imports, path) == <<"u", "n", "i", "m", "p">>

\* inline/analyzer: the case *ast.Ident of pass 2 after the lookup of incon.
identCase(incon, u) ==
    IF incon = NilFact THEN NoReport
    ELSE LET importPrefix ==
                 IF incon.RHSPkgPath # u.conPkg
                 THEN maybeAddImportPath(u.imports, incon.RHSPkgPath) \o <<".">>
                 ELSE <<>>
             newText == importPrefix \o incon.RHSName
         IN [reported |-> TRUE, edits |-> <<ReplaceEdit("ident", newText)>>,
             newText |-> newText]

InitConst ==
    /\ cuse \in ConstUses
    /\ inlinableConsts \in
           IF cuse.conPkg = PassPkg THEN ConstFacts \cup {NilFact} ELSE {NilFact}
    /\ ~(cuse.shadowed /\ inlinableConsts # NilFact
           /\ inlinableConsts.RHSPkgPath # PassPkg)
    /\ creport = NoReport
    /\ cpc = "use"
    /\ IdleBisect
    /\ IdleAnalyzer
    /\ IdleInline
    /\ IdleMarker
    /\ IdleRewrite
    /\ IdleServer
    /\ IdleDirective
    /\ IdleResource

\* gofix visits the use.
GofixInlineConst ==
    /\ cpc = "use"
    /\ cuse.which = "gofix"
    /\ inlinableConsts' = Incon(inlinableConsts, cuse)
    /\ creport' = inlineConst(Incon(inlinableConsts, cuse), cuse)
    /\ cpc' = "visited"
    /\ UNCHANGED <<cuse, notConstVars>>

\* inline/analyzer visits the use.
AnalyzerInlineConst ==
    /\ cpc = "use"
    /\ cuse.which = "inline"
    /\ inlinableConsts' = Incon(inlinableConsts, cuse)
    /\ creport' = identCase(Incon(inlinableConsts, cuse), cuse)
    /\ cpc' = "visited"
    /\ UNCHANGED <<cuse, notConstVars>>

NextConst ==
    \/ GofixInlineConst
    \/ AnalyzerInlineConst

SpecConst == InitConst /\ [][NextConst]_vars

----------------------------------------------------------------------------
(* The go:fix-inline analyzers: the directives of a doc comment group and   *)
(* the declarations find takes for inlining candidates.                     *)

\* Between the parts of a comment up to MaxSpaces spaces are written.
MaxSpaces == 2

\* The white space strings.TrimSpace removes, as far as comments have it.
WhiteSpace == {" ", "\t"}

\* 'a' <= b && b <= 'z' || '0' <= b && b <= '9'
LowerOrDigit ==
    {"a", "b", "c", "d", "e", "f", "g", "h", "i", "j", "k", "l", "m", "n",
     "o", "p", "q", "r", "s", "t", "u", "v", "w", "x", "y", "z"} \cup DecDigits

\* strings.Index(s, sep) + 1 for a separator of one character: 0 if absent.
IndexOf(s, sep) ==
    IF \E i \in 1 .. Len(s) : s[i] = sep
    THEN SetMin({i \in 1 .. Len(s) : s[i] = sep})
    ELSE 0

HasPrefix(s, prefix) ==
    Len(s) >= Len(prefix) /\ SubSeq(s, 1, Len(prefix)) = prefix

\* strings.Cut(s, sep) for a separator of one character.
Cut(s, sep) ==
    LET i == IndexOf(s, sep)
    IN IF i = 0 THEN [before |-> s, after |-> <<>>, found |-> FALSE]
       ELSE [before |-> SubSeq(s, 1, i - 1), after |-> SubSeq(s, i + 1, Len(s)),
             found |-> TRUE]

\* strings.TrimSpace(s).
TrimSpace(s) ==
    LET black == {i \in 1 .. Len(s) : s[i] \notin WhiteSpace}
    IN IF black = {} THEN <<>>
       ELSE SubSeq(s, SetMin(black), CHOOSE i \in black : \A j \in black : j <= i)

\* isDirective(c): c is the comment text without its two slashes.
isDirective(c) ==
    IF \/ HasPrefix(c, <<"l", "i", "n", "e", " ">>) \/ HasPrefix(c, <<"e", "x", "t", "e", "r", "n", " ">>) \/ HasPrefix(c, <<"e", "x", "p", "o", "r", "t", " ">>)
    THEN TRUE
    ELSE LET colon == IndexOf(c, ":") - 1
         IN IF colon <= 0 \/ colon + 1 >= Len(c) THEN FALSE
            ELSE \A i \in 0 .. colon + 1 : i # colon => c[i + 1] \in LowerOrDigit

\* The directive of one comment, after the tests of directives.
Directive(text) ==
    LET ta == Cut(SubSeq(text, 3, Len(text)), ":")
        tool == IF ta.found THEN ta.before ELSE <<>>
        nameargs == IF ta.found THEN ta.after ELSE ta.before
        na == Cut(nameargs, " ")
    IN [Tool |-> tool, Name |-> na.before, Args |-> TrimSpace(na.after)]

\* directives(g): the directives of the comments of the group, a nil group
\* being the empty list.
directives(g) ==
    {Directive(g[k]) : k \in {j \in 1 .. Len(g) :
        /\ Len(g[j]) > 2
        /\ g[j][2] = "/"
        /\ g[j][3] # " "
        /\ isDirective(SubSeq(g[j], 3, Len(g[j])))}}

\* A slip: the arguments of the directive are not looked at.
hasFixInline_AnyArgs(cg) ==
    \E d \in directives(cg) : d.Tool = <<"g", "o">> /\ d.Name = <<"f", "i", "x">>

hasFixInline(cg) ==
    \E d \in directives(cg) :
        d.Tool = <<"g", "o">> /\ d.Name = <<"f", "i", "x">> /\ d.Args = <<"i", "n", "l", "i", "n", "e">>

Spaces == {Repeat(" ", n) : n \in 0 .. MaxSpaces} \cup {<<"\t">>}

\* The pieces of a comment: a line or block comment, with or without a
\* space after the opening, with several tools, names and arguments.
CommentParts ==
    [block : BOOLEAN, lead : {<<>>, <<" ">>},
     tool : {<<"g", "o">>, <<"G", "o">>, <<>>}, colon : {<<":">>, <<>>},
     name : {<<"f", "i", "x">>, <<"f", "i", "x", "x">>, <<"F", "i", "x">>}, sep : Spaces,
     args : {<<>>, <<"i", "n", "l", "i", "n", "e">>, <<"i", "n", "l", "i", "n", "e", " ", "e", "x", "t", "r", "a">>, <<"i", "n", "l", "i", "n", "e", "e">>},
     trail : Spaces]

\* The text of the comment made of the pieces p.
CommentText(p) ==
    (IF p.block THEN <<"/", "*">> ELSE <<"/", "/">>) \o p.lead \o p.tool
        \o p.colon \o p.name \o p.sep \o p.args \o p.trail
        \o (IF p.block THEN <<"*", "/">> ELSE <<>>)

PlainComment == <<"/", "/", " ", "F", " ", "i", "s", " ", "o", "l", "d", ".">>

FixInlineComment == <<"/", "/", "g", "o", ":", "f", "i", "x", " ", "i", "n", "l", "i", "n", "e">>

\* A doc comment group: the comment, alone or after a comment of prose.
DocGroup(c, prose) == IF prose THEN <<PlainComment, c>> ELSE <<c>>

\* The other doc group of a const, type or var declaration: none, or one
\* with the directive.
OtherDocs == {<<>>, <<FixInlineComment>>}

\* The declaration find meets: a function, or a const, type or var
\* declaration with one spec; g is the doc of the declaration or of the spec.
Decl(tok, g, o, atSpec) ==
    IF tok = "func" THEN [tok |-> tok, doc |-> g, specDoc |-> <<>>]
    ELSE IF atSpec THEN [tok |-> tok, doc |-> o, specDoc |-> g]
    ELSE [tok |-> tok, doc |-> g, specDoc |-> o]

InitDirective ==
    /\ \E p \in CommentParts, prose \in BOOLEAN, o \in OtherDocs, atSpec \in BOOLEAN,
          tok \in {"func", "const", "type", "var"} :
           /\ tok = "func" => (o = <<>> /\ ~atSpec)
           /\ decl = Decl(tok, DocGroup(CommentText(p), prose), o, atSpec)
    /\ candidate = FALSE
    /\ dpc = "decl"
    /\ IdleBisect
    /\ IdleAnalyzer
    /\ IdleInline
    /\ IdleMarker
    /\ IdleRewrite
    /\ IdleServer
    /\ IdleConst
    /\ IdleResource

\* find at a FuncDecl: findFunc goes on when the doc has the directive.
FindFuncDecl ==
    /\ dpc = "decl"
    /\ decl.tok = "func"
    /\ candidate' = hasFixInline(decl.doc)
    /\ dpc' = "found"
    /\ UNCHANGED <<decl, notDirectiveVars>>

\* find at a GenDecl: only const and type declarations are looked at; the
\* directive of the declaration counts for each spec.
FindGenDecl ==
    /\ dpc = "decl"
    /\ decl.tok # "func"
    /\ candidate' =
           IF decl.tok \notin {"const", "type"} THEN FALSE
           ELSE LET declInline == hasFixInline(decl.doc)
                IN declInline \/ hasFixInline(decl.specDoc)
    /\ dpc' = "found"
    /\ UNCHANGED <<decl, notDirectiveVars>>

NextDirective ==
    \/ FindFuncDecl
    \/ FindGenDecl

SpecDirective == InitDirective /\ [][NextDirective]_vars

----------------------------------------------------------------------------
(* internal/bisect: New on terms at the limit of 64 bits *)

\* Hex terms of up to MaxHexLen digits are tried beside the long ones.
MaxHexLen == 2

\* A term of n binary digits: all ones, or a one followed by zeros.
Ones(n) == Repeat("1", n)

HighBit(n) == <<"1">> \o Repeat("0", n - 1)

\* The four binary digits of a hex digit, as "bits <<= 4; bits |= value"
\* lays them out.
HexBits(c) ==
    LET v == IF c \in DecDigits THEN DigitVal(c) ELSE LetterVal(c)
        b(k) == IF (v \div Pow2(k)) % 2 = 1 THEN "1" ELSE "0"
    IN <<b(3), b(2), b(1), b(0)>>

\* The binary term with the value and the width of the hex digits h.
ExpandHex(h) ==
    [k \in 1 .. 4 * Len(h) |-> HexBits(h[(k + 3) \div 4])[((k - 1) % 4) + 1]]

HexChoices == {"0", "1", "9", "a", "F"}

ShortHex == UNION {[1 .. n -> HexChoices] : n \in 1 .. MaxHexLen}

\* Hex digit strings of 16 and of 17 digits.
LongHex ==
    { Repeat("f", WordBits \div 4), Repeat("f", WordBits \div 4 + 1),
      <<"8">> \o Repeat("0", WordBits \div 4 - 1),
      <<"8">> \o Repeat("0", WordBits \div 4) }

\* The terms: binary terms of 64 and 65 digits, the hex terms and the binary
\* terms they expand to.
WideTerms ==
    { Ones(WordBits), Ones(WordBits + 1), HighBit(WordBits), HighBit(WordBits + 1) }
      \cup {<<"x">> \o h : h \in ShortHex \cup LongHex}
      \cup {ExpandHex(h) : h \in ShortHex \cup LongHex}

\* The patterns: a term alone, after a leading -, after another term, and
\* the empty pattern.
WidePatterns ==
    {<<>>} \cup WideTerms \cup {<<"-">> \o t : t \in WideTerms}
      \cup {<<"0", "+">> \o t : t \in WideTerms}

InitWidth ==
    /\ pattern \in WidePatterns
    /\ bpc = "start"
    /\ m = NilMatcher
    /\ err = ""
    /\ last = NoQuery
    /\ IdleAnalyzer
    /\ IdleInline
    /\ IdleMarker
    /\ IdleRewrite
    /\ IdleServer
    /\ IdleConst
    /\ IdleDirective
    /\ IdleResource

SpecWidth == InitWidth /\ [][NextBisect]_vars

----------------------------------------------------------------------------
(* internal/mcp: resources/read *)

\* A server serves up to MaxReads requests.
MaxReads == 2

\* const codeResourceNotFound
codeResourceNotFound == -31002

URIs == {"file:///file1.txt", "file:///nonexistent.txt", "file:///secret.txt"}

\* No resource is registered for the URI.
NoHandler == "none"

\* What a ResourceHandler does: it returns contents without URI and MIME
\* type, contents with both, ResourceNotFoundError(p.URI), a nil result, or
\* another error.
Handlers == {"contents", "full", "notfound", "nilresult", "fails"}

\* The MIME type of the Resource registered, and the one a handler sets.
ResourceMIME == "text/plain"

HandlerMIME == "text/html"

\* fmt.Sprintf(`{"uri":%q}`, uri)
UriData(uri) == <<"{", "\"uri\"", ":", "\"", uri, "\"", "}">>

\* ResourceNotFoundError(uri): a *jsonrpc2.WireError.
ResourceNotFoundError(uri) ==
    [NoReply EXCEPT !.kind = "wire", !.code = codeResourceNotFound,
                    !.message = "Resource not found", !.data = UriData(uri)]

\* What the handler h returns for the URI: a result, or an error.
Handle(h, uri) ==
    CASE h = "contents" -> [NoReply EXCEPT !.kind = "result"]
      [] h = "full" -> [NoReply EXCEPT !.kind = "result", !.uri = uri, !.mime = HandlerMIME]
      [] h = "notfound" -> ResourceNotFoundError(uri)
      [] h = "nilresult" -> [NoReply EXCEPT !.kind = "nil"]
      [] h = "fails" -> [NoReply EXCEPT !.kind = "error", !.message = "handler failed"]

\* A slip: the lookup that fails is reported as such.
readResource_Tells(res, uri) ==
    IF res[uri] = NoHandler
    THEN [invoked |-> FALSE,
          reply |-> [NoReply EXCEPT !.kind = "error", !.message = "no such resource"]]
    ELSE LET r == Handle(res[uri], uri) IN
         [invoked |-> TRUE,
          reply |->
              IF r.kind \in {"wire", "error"} THEN r
              ELSE IF r.kind = "nil"
              THEN [NoReply EXCEPT !.kind = "error",
                                   !.message = "read handler returned nil information"]
              ELSE [r EXCEPT !.uri = IF r.uri = "" THEN uri ELSE r.uri,
                             !.mime = IF r.mime = "" THEN ResourceMIME ELSE r.mime]]

\* Server.readResource on the registrations res.
readResource(res, uri) ==
    IF res[uri] = NoHandler
    THEN [invoked |-> FALSE, reply |-> ResourceNotFoundError(uri)]
    ELSE LET r == Handle(res[uri], uri) IN
         [invoked |-> TRUE,
          reply |->
              IF r.kind \in {"wire", "error"} THEN r
              ELSE IF r.kind = "nil"
              THEN [NoReply EXCEPT !.kind = "error",
                                   !.message = "read handler returned nil information"]
              ELSE [r EXCEPT !.uri = IF r.uri = "" THEN uri ELSE r.uri,
                             !.mime = IF r.mime = "" THEN ResourceMIME ELSE r.mime]]

InitResource ==
    /\ resources = [u \in URIs |-> NoHandler]
    /\ nreads = 0
    /\ rlast = NoRead
    /\ IdleBisect
    /\ IdleAnalyzer
    /\ IdleInline
    /\ IdleMarker
    /\ IdleRewrite
    /\ IdleServer
    /\ IdleConst
    /\ IdleDirective

\* s.AddResources(&ServerResource{resource, handler}): a resource with the
\* same URI is replaced.
AddResources ==
    /\ \E u \in URIs, h \in Handlers : resources' = [resources EXCEPT ![u] = h]
    /\ UNCHANGED <<nreads, rlast, notResourceVars>>

\* s.RemoveResources(uri)
RemoveResources ==
    /\ \E u \in URIs : resources' = [resources EXCEPT ![u] = NoHandler]
    /\ UNCHANGED <<nreads, rlast, notResourceVars>>

\* A client's resources/read request for the URI is served.
ReadResource ==
    /\ nreads < MaxReads
    /\ \E u \in URIs :
         LET r == readResource(resources, u) IN
         rlast' = [uri |-> u, registered |-> resources[u] # NoHandler,
                   invoked |-> r.invoked, reply |-> r.reply]
    /\ nreads' = nreads + 1
    /\ UNCHANGED <<resources, notResourceVars>>

NextResource ==
    \/ AddResources
    \/ RemoveResources
    \/ ReadResource

SpecResource == InitResource /\ [][NextResource]_vars

----------------------------------------------------------------------------
(* internal/bisect: what the pattern language means, stated on the text of *)
(* the pattern and the bits of the id                                      *)

IsOp(c) == c \in {"+", "-"}

Bit(c) == c \in {"0", "1"}

\* The terms of p: maximal runs of characters between operators, each with
\* the operator before it (the first term counts as added).
Terms(p) ==
    {t \in [s : 1 .. Len(p), e : 1 .. Len(p)] :
        /\ t.s <= t.e
        /\ \A k \in t.s .. t.e : ~IsOp(p[k])
        /\ (t.s = 1 \/ IsOp(p[t.s - 1]))
        /\ (t.e = Len(p) \/ IsOp(p[t.e + 1]))}

Added(p, t) == t.s = 1 \/ p[t.s - 1] = "+"

\* t1+...+tk-u1-...-um: bit strings (or y, the empty bit string) separated
\* by operators, no term empty, every + before every -.
PlusMinusForm(p) ==
    /\ p # <<>>
    /\ ~IsOp(p[1]) /\ ~IsOp(p[Len(p)])
    /\ \A k \in 1 .. (Len(p) - 1) : ~(IsOp(p[k]) /\ IsOp(p[k + 1]))
    /\ \A t \in Terms(p) :
          \/ \A k \in t.s .. t.e : Bit(p[k])
          \/ (t.s = t.e /\ p[t.s] = "y")
    /\ \A i, j \in 1 .. Len(p) : (i < j /\ p[i] = "-") => p[j] # "+"

\* The low bits of id spell the term t of p (y: every id).
EndsIn(id, p, t) ==
    \/ p[t.s] = "y"
    \/ \A k \in t.s .. t.e : ((t.e - k) \in id) <=> (p[k] = "1")

InSet(p, id) ==
    /\ \E t \in Terms(p) : Added(p, t) /\ EndsIn(id, p, t)
    /\ ~\E t \in Terms(p) : ~Added(p, t) /\ EndsIn(id, p, t)

HasPlusAfterMinus(p) ==
    \E i, j \in 1 .. Len(p) : i < j /\ p[i] = "-" /\ p[j] = "+"

DocExample == <<"0", "1", "+", "1", "0", "-", "1", "0", "0", "1">>

DocInvalid == <<"0", "+", "1", "-", "0", "1", "+", "0", "0", "1">>

Queried == last.op \in {"ShouldEnable", "ShouldReport"}

\* The conditions of list that id meets.
Meets(list, id) ==
    {i \in 1 .. Len(list) : BitAnd(id, list[i].mask) = list[i].bits}

SetMax(S) == CHOOSE k \in S : \A j \in S : k >= j

----------------------------------------------------------------------------
(* internal/bisect: the claims *)

\* C4: for a pattern t1+...+tk-u1-...-um without a leading !, ShouldEnable(id)
\* and ShouldReport(id) are both true exactly when the low bits of id equal
\* some ti and no uj; for "01+10-1001", 0b1001 is not enabled and 0b01 is.
Thm_C4 ==
    /\ (bpc = "made" /\ PlusMinusForm(pattern) /\ Queried)
          => last.ret = InSet(pattern, last.id)
    /\ (bpc = "made" /\ pattern = DocExample /\ last.op = "ShouldEnable")
          => /\ last.id = {0, 3} => last.ret = FALSE
             /\ last.id = {0} => last.ret = TRUE

Witness_C4 ==
    /\ bpc = "made" /\ pattern = DocExample
    /\ last.op = "ShouldEnable" /\ last.id = {0, 3} /\ last.ret = FALSE

\* C5: a query answers with the last condition of the list that the id meets:
\* ShouldReport with its result, ShouldEnable with (result = enable); when
\* the id meets no condition (the list may be empty) ShouldReport is false
\* and ShouldEnable is the negation of enable.
Thm_C5 ==
    (bpc \in {"made", "zero"} /\ ~m.nil /\ Queried) =>
        LET S == Meets(m.list, last.id) IN
        /\ (S # {} /\ last.op = "ShouldReport")
              => last.ret = m.list[SetMax(S)].result
        /\ (S # {} /\ last.op = "ShouldEnable")
              => last.ret = (m.list[SetMax(S)].result = m.enable)
        /\ (S = {} /\ last.op = "ShouldReport") => last.ret = FALSE
        /\ (S = {} /\ last.op = "ShouldEnable") => last.ret = ~m.enable

Witness_C5 ==
    /\ bpc = "made" /\ ~m.nil /\ last.op = "ShouldReport"
    /\ \E i, j \in Meets(m.list, last.id) :
          i < j /\ m.list[i].result # m.list[j].result

\* C6 as stated: for every pattern P that New accepts and that has no leading
\* v, New("!" + P) is accepted, its ShouldEnable is the negation of that of
\* New(P) and its ShouldReport is the same; "!!" + P answers as P does.
BangNegates(p, mt) ==
    LET r1 == New(<<"!">> \o p)
        r2 == New(<<"!", "!">> \o p)
    IN /\ r1.err = "" /\ r2.err = ""
       /\ \A id \in Ids :
            /\ ShouldEnable(r1.m, id) = ~ShouldEnable(mt, id)
            /\ ShouldReport(r1.m, id) = ShouldReport(mt, id)
            /\ ShouldEnable(r2.m, id) = ShouldEnable(mt, id)
            /\ ShouldReport(r2.m, id) = ShouldReport(mt, id)

Claim_C6 ==
    (bpc = "made" /\ err = "" /\ (pattern = <<>> \/ pattern[1] # "v"))
        => BangNegates(pattern, m)

\* C6, amended: the same for every non-empty pattern P that New accepts and
\* that has no leading v.
Thm_C6 ==
    (bpc = "made" /\ err = "" /\ pattern # <<>> /\ pattern[1] # "v")
        => BangNegates(pattern, m)

Witness_C6 ==
    /\ bpc = "made" /\ err = "" /\ pattern = <<"y", "-", "1">>
    /\ last.op = "ShouldEnable" /\ last.id = {0} /\ last.ret = FALSE
    /\ ShouldEnable(New(<<"!">> \o pattern).m, last.id)

\* C7: "n" answers as "!y" does, ShouldEnable false and ShouldReport true for
\* every id; "y" answers true to both for every id.
Thm_C7 ==
    /\ (bpc = "made" /\ pattern \in {<<"n">>, <<"!", "y">>}) =>
          /\ err = "" /\ ~m.nil
          /\ m = New(<<"!", "y">>).m
          /\ last.op = "ShouldEnable" => last.ret = FALSE
          /\ last.op = "ShouldReport" => last.ret = TRUE
    /\ (bpc = "made" /\ pattern = <<"y">>) =>
          /\ err = "" /\ ~m.nil
          /\ Queried => last.ret = TRUE

Witness_C7 ==
    /\ bpc = "made" /\ pattern = <<"n">>
    /\ last.op = "ShouldEnable" /\ last.ret = FALSE

\* C8: New("") returns the nil Matcher and the nil error, and on it
\* ShouldEnable is true and ShouldReport false for every id.
Thm_C8 ==
    (bpc = "made" /\ pattern = <<>>) =>
        /\ m = NilMatcher /\ err = ""
        /\ last.op = "ShouldEnable" => last.ret = TRUE
        /\ last.op = "ShouldReport" => last.ret = FALSE

Witness_C8 ==
    /\ bpc = "made" /\ pattern = <<>> /\ m.nil
    /\ last.op = "ShouldEnable" /\ last.ret = TRUE

\* C9: Verbose returns true exactly when the pattern began with v, a v before
\* a pattern changes neither ShouldEnable nor ShouldReport, and on the nil
\* Matcher of the empty pattern Verbose returns false.
Claim_C9 ==
    /\ (last.op = "Verbose" /\ pattern # <<>>)
          => (~last.panic /\ last.ret = (pattern[1] = "v"))
    /\ (last.op = "Verbose" /\ pattern = <<>> /\ m.nil)
          => (~last.panic /\ last.ret = FALSE)
    /\ (bpc = "made" /\ err = "" /\ pattern # <<>>) =>
          LET r == New(<<"v">> \o pattern) IN
          /\ r.err = ""
          /\ \A id \in Ids :
               /\ ShouldEnable(r.m, id) = ShouldEnable(m, id)
               /\ ShouldReport(r.m, id) = ShouldReport(m, id)

\* C10: New returns an error and the nil Matcher for every pattern in which a
\* + comes after a -, such as "0+1-01+001".
Thm_C10 ==
    (bpc = "made" /\ HasPlusAfterMinus(pattern)) => (err # "" /\ m = NilMatcher)

Witness_C10 ==
    /\ bpc = "made" /\ pattern = DocInvalid
    /\ err = ErrPlusAfterMinus /\ m = NilMatcher

----------------------------------------------------------------------------
(* The go:fix-inline analyzers: the claims *)

\* The call sites at which inline.Inline was called.
Inlined == {k \in 1 .. Len(visits) : visits[k].kind = "call" /\ visits[k].called}

DiagsAt(k) == {i \in 1 .. Len(diags) : diags[i].node = k}

\* C1: in both analyzers, a call site at which inline.Inline returns a result
\* with Literalized=true gets no diagnostic and no suggested fix; every
\* suggested fix reported comes from a result with Literalized=false.
Thm_C1 ==
    /\ \A k \in Inlined : visits[k].out.literalized => DiagsAt(k) = {}
    /\ \A i \in 1 .. Len(diags) :
          diags[i].fixes # <<>> =>
             /\ diags[i].node \in Inlined
             /\ visits[diags[i].node].out.err = ""
             /\ ~visits[diags[i].node].out.literalized

Witness_C1 ==
    /\ \E k \in Inlined : visits[k].out.literalized /\ k < Len(visits)
    /\ \E i \in 1 .. Len(diags) : diags[i].fixes # <<>>

\* At every call site where the engine returned an error: one diagnostic, at
\* the left parenthesis, with the error text and without a fix.
ErrorsReported ==
    \A k \in Inlined :
        visits[k].out.err # "" =>
           /\ Cardinality(DiagsAt(k)) = 1
           /\ \A i \in DiagsAt(k) :
                 /\ diags[i].at = "Lparen"
                 /\ diags[i].msg = visits[k].out.err
                 /\ diags[i].fixes = <<>>

\* A step at which the engine returns an error leaves the pass going.
ErrorStepGoesOn ==
    (step' = step + 1 /\ (step + 1) \in Inlined' /\ visits'[step + 1].out.err # "")
        => phase' = "inline"

\* C2: when inline.Inline returns an error for a call site, the analyzer
\* reports exactly one diagnostic at the left parenthesis of the call, with
\* the error text and no suggested fix, and goes on with the other call
\* sites; no fix follows for that call.
Thm_C2 == []ErrorsReported /\ [][ErrorStepGoesOn]_vars

Witness_C2 ==
    \E k \in Inlined :
        /\ visits[k].out.err # ""
        /\ \E j \in Inlined : j > k /\ visits[j].out.err = ""
                                 /\ ~visits[j].out.literalized
        /\ \E i \in DiagsAt(k) : diags[i].msg = visits[k].out.err

----------------------------------------------------------------------------
(* The inlining engine: the claims *)

\* The callee uses its parameters in the reverse order: n, ..., 1.
ReverseUse == ibody = [k \in 1 .. Len(iargs) |-> Len(iargs) + 1 - k]

AllEffects == \A i \in 1 .. Len(iargs) : iargs[i]

Increasing(seq) == \A i, j \in 1 .. Len(seq) : i < j => seq[i] < seq[j]

\* C3: for a call f(A(), B()) whose arguments have side effects and whose
\* callee uses its parameters in the reverse order, every inlining result
\* evaluates A() once, B() once, and A() before B(); the temporaries are
\* declared in the order of the argument list.
Thm_C3 ==
    /\ (ipc = "ran" /\ Len(iargs) >= 2 /\ AllEffects /\ ReverseUse)
          => itrace = [i \in 1 .. Len(iargs) |-> i]
    /\ ipc \in {"inlined", "ran"} => Increasing(ires.decls)

Witness_C3 ==
    /\ ipc = "ran" /\ iargs = <<TRUE, TRUE>> /\ ibody = <<2, 1>>
    /\ ires.strategy = "splice" /\ ires.decls = <<1>>
    /\ itrace = <<1, 2>>

----------------------------------------------------------------------------
(* internal/bisect: leading operators *)

TermChars == {"0", "1", "y", "x"} \cup DecDigits \cup HexLetters

\* A list of terms separated by operators: it begins with a term.
TermList(p) ==
    /\ p # <<>>
    /\ \A k \in 1 .. Len(p) : p[k] \in TermChars \cup {"+", "-"}
    /\ ~IsOp(p[1])

\* New(p) and New(q) accept alike and classify every id alike.
SameAnswers(p, q) ==
    LET rp == New(p)
        rq == New(q)
    IN /\ (rp.err = "") = (rq.err = "")
       /\ rp.err = "" =>
            \A id \in Ids :
               /\ ShouldEnable(rp.m, id) = ShouldEnable(rq.m, id)
               /\ ShouldReport(rp.m, id) = ShouldReport(rq.m, id)

\* C11: a leading + adds to the empty set and a leading - subtracts from the
\* set of all ids: "+" + P classifies every id as P does, and "-" + Q as
\* "y-" + Q does.
Thm_C11 ==
    (bpc = "made" /\ last = NoQuery /\ TermList(pattern)) =>
        /\ LET plus == New(<<"+">> \o pattern) IN
             /\ (err = "") = (plus.err = "")
             /\ err = "" =>
                  \A id \in Ids :
                     /\ ShouldEnable(plus.m, id) = ShouldEnable(m, id)
                     /\ ShouldReport(plus.m, id) = ShouldReport(m, id)
        /\ SameAnswers(<<"-">> \o pattern, <<"y", "-">> \o pattern)

Witness_C11 ==
    /\ bpc = "made" /\ last = NoQuery
    /\ pattern = <<"0", "1">> /\ err = ""
    /\ ~ShouldEnable(m, {1})
    /\ ShouldEnable(New(<<"-">> \o pattern).m, {1})
    /\ ShouldEnable(New(<<"y", "-">> \o pattern).m, {1})
    /\ ~ShouldEnable(New(<<"+">> \o pattern).m, {1})

----------------------------------------------------------------------------
(* internal/bisect: match markers *)

\* No "[bisect-match " begins in s.
NoPrefixIn(s) ==
    \A i \in 0 .. (Len(s) - Len(CutPrefix)) :
       Slice(s, i, i + Len(CutPrefix)) # CutPrefix

\* The value of hex digit n of id, digit 0 being the least significant.
NibbleAt(id, n) ==
    BitAt(id, 4 * n) + 2 * BitAt(id, 4 * n + 1) + 4 * BitAt(id, 4 * n + 2)
      + 8 * BitAt(id, 4 * n + 3)

\* The spec's example: Marker(0x1).
MarkerOfOne ==
    <<"[", "b", "i", "s", "e", "c", "t", "-", "m", "a", "t", "c", "h", " ",
      "0", "x", "0", "0", "0", "0", "0", "0", "0", "0", "0", "0", "0", "0",
      "0", "0", "0", "1", "]">>

\* C12: Marker(id) is "[bisect-match 0x", the 16 lower-case hex digits of id
\* with the most significant first, and "]", 33 characters in all;
\* CutMarker(Marker(id)) is ("", id, true); and on a line that has Marker(id)
\* after a text with no marker prefix CutMarker returns id and ok = true.
Thm_C12 ==
    msrc.how = "Marker" =>
        /\ Len(msrc.text) = 33
        /\ SubSeq(msrc.text, 1, 14) = CutPrefix
        /\ msrc.text[15] = "0" /\ msrc.text[16] = "x"
        /\ \A k \in 1 .. 16 :
              msrc.text[16 + k] = HexDigits[NibbleAt(msrc.id, 16 - k) + 1]
        /\ msrc.text[33] = "]"
        /\ CutMarker(msrc.text) = [short |-> <<>>, id |-> msrc.id, ok |-> TRUE]
        /\ (mpc = "cut" /\ NoPrefixIn(msrc.pre)) => (cut.ok /\ cut.id = msrc.id)

Witness_C12 ==
    /\ mpc = "cut" /\ msrc.how = "Marker" /\ msrc.id = {0}
    /\ msrc.text = MarkerOfOne
    /\ msrc.pre = <<"x", " ">> /\ msrc.suf = <<"]">>
    /\ cut.ok /\ cut.id = {0}

\* The id a string of binary digits denotes.
BinVal(s) == {Len(s) - k : k \in {j \in 1 .. Len(s) : s[j] = "1"}}

IsBinary(s) == s # <<>> /\ \A k \in 1 .. Len(s) : s[k] \in {"0", "1"}

\* The line without the marker, and without the space before it or else the
\* space after it.
Removed(pre, suf) ==
    IF pre # <<>> /\ pre[Len(pre)] = " " THEN SubSeq(pre, 1, Len(pre) - 1) \o suf
    ELSE IF suf # <<>> /\ suf[1] = " " THEN pre \o Tail(suf)
    ELSE pre \o suf

HandWritten == mpc = "cut" /\ msrc.how = "closed" /\ NoPrefixIn(msrc.pre)

\* C13 as stated: a marker with the content 0b101 is cut with ok = true and
\* the id 5.
Claim_C13 ==
    (HandWritten /\ msrc.idstr = <<"0", "b", "1", "0", "1">>) =>
        (cut.ok /\ cut.id = {0, 2})

\* C13, amended: a marker whose content is 1 to 64 binary digits, with no
\* prefix before them, is cut with ok = true, the id the digits denote and
\* the marker removed from the line, and so is the hex form; the content
\* 0b101 is not a marker.
Thm_C13 ==
    HandWritten =>
        /\ (IsBinary(msrc.idstr) /\ Len(msrc.idstr) <= 64) =>
              cut = [short |-> Removed(msrc.pre, msrc.suf),
                     id |-> BinVal(msrc.idstr), ok |-> TRUE]
        /\ msrc.idstr = <<"0", "x", "1", "2", "3", "4">> =>
              cut = [short |-> Removed(msrc.pre, msrc.suf),
                     id |-> {2, 4, 5, 9, 12}, ok |-> TRUE]
        /\ msrc.idstr = <<"0", "b", "1", "0", "1">> => ~cut.ok

Witness_C13 ==
    /\ HandWritten
    /\ msrc.idstr = <<"1", "0", "1">>
    /\ line = <<"x", " ">> \o CutPrefix \o <<"1", "0", "1", "]", " ", "y">>
    /\ cut = [short |-> <<"x", " ", "y">>, id |-> {0, 2}, ok |-> TRUE]

\* Where the first "[bisect-match " of the line begins, and where the first
\* ] after it stands (0-based).
MarkerStart ==
    SetMin({i \in 0 .. (Len(line) - Len(CutPrefix)) : Slice(line, i, i + Len(CutPrefix)) = CutPrefix})

MarkerEnd ==
    SetMin({j \in (MarkerStart + Len(CutPrefix)) .. (Len(line) - 1) : line[j + 1] = "]"})

\* C14: when CutMarker finds a marker the short line is the line without
\* the marker and without one adjacent space, the one before the marker if
\* there is one and otherwise the one after it if there is one; when it
\* finds none it returns the line, 0 and false.
Thm_C14 ==
    mpc = "cut" =>
        /\ cut.ok => cut.short = Removed(Slice(line, 0, MarkerStart),
                                          Slice(line, MarkerEnd + 1, Len(line)))
        /\ ~cut.ok => (cut.short = line /\ cut.id = {})

Witness_C14 ==
    /\ mpc = "cut" /\ msrc.how = "Marker" /\ msrc.id = Word
    /\ msrc.pre = <<"x", " ">> /\ msrc.suf = <<" ", "y">>
    /\ cut.ok /\ cut.short = <<"x", " ", "y">>

----------------------------------------------------------------------------
(* internal/bisect: the queries have no hidden state *)

\* The matcher as it was before any query.
FirstMatcher == IF bpc = "zero" THEN ZeroMatcher ELSE New(pattern).m

\* What the query op answers for id on the matcher mt.
Answer(mt, op, id) ==
    IF op = "ShouldEnable" THEN ShouldEnable(mt, id) ELSE ShouldReport(mt, id)

\* Whatever queries came before, a query answers as the first one would.
AnswersAsFirst ==
    (bpc \in {"made", "zero"} /\ Queried) =>
        last.ret = Answer(FirstMatcher, last.op, last.id)

\* A step that makes a query leaves the matcher as it is: its verbose flag,
\* its enable flag and its condition list.
QueryKeepsMatcher ==
    (bpc \in {"made", "zero"} /\ last' # last) => m' = m

\* C15: ShouldEnable, ShouldReport and Verbose leave the verbose flag, the
\* enable flag and the condition list as they are, so after any sequence of
\* queries ShouldEnable(id) and ShouldReport(id) return what they returned
\* on the first call.
Thm_C15 == []AnswersAsFirst /\ [][QueryKeepsMatcher]_vars

Witness_C15 ==
    /\ bpc = "made" /\ pattern = <<"!", "0", "1">> /\ err = ""
    /\ last.op = "ShouldReport" /\ last.id = {0} /\ last.ret
    /\ m = New(pattern).m /\ m.list # <<>> /\ ~m.enable

----------------------------------------------------------------------------
(* go:fix-inline analyzers: the memo of fact imports *)

\* C16 as stated: within one pass ImportObjectFact is called at most once
\* for a function, however many call sites it has.
Claim_C16 == \A fn \in DOMAIN importCalls : importCalls[fn] <= 1

----------------------------------------------------------------------------
(* The inlining engine: receivers, imports, n-ary results *)

\* C17: inlining x.m() binds the receiver to &x where m has a pointer
\* receiver and x is a variable of the value type, to x itself where m has a
\* value receiver and x is a value, and to *ptr where m has a value
\* receiver and is called through the pointer ptr; the receiver bound has
\* the receiver type of m.
Thm_C17 ==
    (rpc = "done" /\ rin.kind = "receiver") =>
        /\ TypeOf(rout.recv.op, rin.argType) = rin.recv
        /\ rout.recv.x = rin.x
        /\ rin.form = "sel" =>
            /\ (rin.recv = "pointer" /\ rin.argType = "value") =>
                   rout.recv = [op |-> "addr", x |-> rin.x]
            /\ (rin.recv = "value" /\ rin.argType = "value") =>
                   rout.recv = [op |-> "id", x |-> rin.x]
            /\ (rin.recv = "value" /\ rin.argType = "pointer") =>
                   rout.recv = [op |-> "deref", x |-> rin.x]

Witness_C17 ==
    /\ rpc = "done" /\ rin.kind = "receiver"
    /\ rin.form = "sel" /\ rin.recv = "pointer" /\ rin.argType = "value"
    /\ rin.x = "x"
    /\ rout.recv = [op |-> "addr", x |-> "x"]

Elems(sq) == {sq[k] : k \in 1 .. Len(sq)}

\* The name has the form of base followed by one digit.
Suffixed(name, base) ==
    /\ Len(name) = Len(base) + 1
    /\ SubSeq(name, 1, Len(base)) = base
    /\ name[Len(name)] \in DecDigits

\* C18: an import added for a package whose default name is taken by another
\* package, in the file or among the imports added before it, has the
\* default name with a numeric suffix; every reference uses the name under
\* which the file imports its package; no two imports of the file share a
\* name; the imports the file had are still there.
Thm_C18 ==
    (rpc = "done" /\ rin.kind = "imports") =>
        /\ rout.file = rin.imports \cup Elems(rout.added)
        /\ \A i1, i2 \in rout.file :
              (i1.name = i2.name \/ i1.path = i2.path) => i1 = i2
        /\ \A j, k \in 1 .. Len(rout.added) :
              rout.added[j].name = rout.added[k].name => j = k
        /\ \A k \in 1 .. Len(rout.added) : rout.added[k] \notin rin.imports
        /\ Len(rout.names) = Len(rin.refs)
        /\ \A k \in 1 .. Len(rin.refs) :
              Import(rout.names[k], rin.refs[k]) \in rout.file
        /\ \A k \in 1 .. Len(rout.added) :
              LET a == rout.added[k]
                  before == rin.imports \cup {rout.added[j] : j \in 1 .. (k - 1)}
              IN IF \E imp \in before : imp.name = DefaultName(a.path)
                 THEN Suffixed(a.name, DefaultName(a.path))
                 ELSE a.name = DefaultName(a.path)

Witness_C18 ==
    /\ rpc = "done" /\ rin.kind = "imports"
    /\ rin.imports = {}
    /\ rin.refs = <<"testdata/b", "testdata/another/b">>
    /\ rout.added = <<Import(<<"b">>, "testdata/b"),
                      Import(<<"b", "0">>, "testdata/another/b")>>
    /\ rout.names = <<(<<"b">>), (<<"b", "0">>)>>

\* C19: the call of a callee that returns n results in one statement becomes
\* the n results, in order, with no temporaries and no function literal: the
\* arguments of the enclosing call, the right-hand side of the assignment or
\* definition with its targets kept, or an assignment to n blanks.
Thm_C19 ==
    (rpc = "done" /\ rin.kind = "results") =>
        /\ rout.stmt.rhs = rin.results
        /\ ~rout.stmt.literal
        /\ rout.stmt.temps = 0
        /\ rin.ctx = "spread" => (rout.stmt.kind = "call" /\ rout.stmt.lhs = <<>>)
        /\ rin.ctx \in {"assign", "define"} =>
              /\ rout.stmt.kind = rin.ctx
              /\ rout.stmt.lhs = SubSeq(LhsNames, 1, Len(rin.results))
        /\ rin.ctx = "stmt" =>
              /\ rout.stmt.kind = "assign"
              /\ Len(rout.stmt.lhs) = Len(rin.results)
              /\ \A k \in 1 .. Len(rout.stmt.lhs) : rout.stmt.lhs[k] = "_"

Witness_C19 ==
    /\ rpc = "done" /\ rin.kind = "results"
    /\ rin.ctx = "stmt" /\ rin.results = <<"2", "2">>
    /\ rout.stmt.kind = "assign"
    /\ rout.stmt.lhs = <<"_", "_">> /\ rout.stmt.rhs = <<"2", "2">>

----------------------------------------------------------------------------
(* internal/mcp: Server.Sessions *)

\* sq holds each element of S once and nothing else.
EachOnce(sq, S) == Elems(sq) = S /\ Len(sq) = Cardinality(S)

\* C20: Server.sessions holds exactly the sessions bound by Connect and not
\* yet disconnected, each once, so that no session whose Wait has returned
\* is in it; and the iterator Sessions returned yields the sessions that
\* were there when it was called, whatever was bound or disconnected since.
Thm_C20 ==
    /\ EachOnce(Elements(heap, sessions), Live)
    /\ \A c \in DOMAIN life : life[c] = "waited" => c \notin Elems(Elements(heap, sessions))
    /\ atCall.called => EachOnce(Elements(heap, iterSeq), atCall.live)
    /\ yielded.done => EachOnce(yielded.got, atCall.live)

Witness_C20 ==
    /\ atCall.called /\ atCall.live = {1, 2}
    /\ life[1] = "waited" /\ life[2] = "bound" /\ life[3] = "bound"
    /\ Elements(heap, sessions) = <<2, 3>>
    /\ yielded.done /\ yielded.got = <<1, 2>>
    /\ Elements(heap, iterSeq) = <<1, 2>>

----------------------------------------------------------------------------
(* go:fix-inline analyzers: the memo of file contents *)

\* C21 as stated: within one pass pass.ReadFile is invoked at most once for
\* a file name.
Claim_C21 == \A f \in DOMAIN readCalls : readCalls[f] <= 1

\* A request for a file that was read answers with the bytes of that read
\* and reads nothing.
HitAnswersFirstRead ==
    \A f \in DOMAIN fileContent :
       fileContent[f] # Absent =>
          \A rr \in Contents \cup {ReadErr} :
             readFile(fileContent, f, rr) =
                [content |-> fileContent[f], err |-> FALSE,
                 fileContent |-> fileContent, read |-> FALSE]

\* Once a file was read, no step reads it again or changes its bytes.
ReadOnceStep ==
    \A f \in DOMAIN fileContent :
       fileContent[f] # Absent =>
          (f \in DOMAIN fileContent' /\ fileContent'[f] = fileContent[f]
             /\ readCalls'[f] = readCalls[f])

\* A file in the map has been read; a file not in the map was at most read
\* in vain.
ReadsCounted ==
    \A f \in DOMAIN fileContent : fileContent[f] # Absent => readCalls[f] >= 1

\* C21, amended: pass.ReadFile succeeds at most once for a file name; after
\* it has, it is not invoked for that file again and every later request
\* returns the bytes of that read; a read that fails stores nothing, and
\* the next request for the file invokes pass.ReadFile again.
Thm_C21 == [](HitAnswersFirstRead /\ ReadsCounted) /\ [][ReadOnceStep]_vars

Witness_C21 ==
    /\ readCalls["a.go"] = 2 /\ fileContent["a.go"] = "c1"
    /\ Len(visits) = 3
    /\ \A k \in 1 .. 3 : visits[k].kind = "call" /\ visits[k].file = "a.go"
    /\ ~visits[1].called /\ visits[2].called /\ visits[3].called

----------------------------------------------------------------------------
(* go:fix-inline analyzers: the two passes *)

\* Every declaration is visited before every call.
TwoPhases ==
    \A j, k \in 1 .. Len(visits) :
       (visits[j].kind = "decl" /\ visits[k].kind = "call") => j < k

\* The call at node k was taken for a call of an inlinable function: the
\* engine was called, or the file of the call could not be read.
TakenForInlinable(k) ==
    \/ visits[k].called
    \/ \E i \in DiagsAt(k) : diags[i].msg = "cannot read source file"

\* A call of a function of the package is taken for inlinable exactly when
\* pass 1 found the function, in whatever file the call and the declaration
\* are.
HandledAlike ==
    \A k \in 1 .. Len(visits) :
       (visits[k].kind = "call" /\ visits[k].fn \in LocalFuncs) =>
          (TakenForInlinable(k) <=> inlinableFuncs[visits[k].fn] # Absent)

\* In pass 2 nothing is learnt about the functions of the package.
FoundStays ==
    phase \in {"inline", "done"} =>
       \A fn \in LocalFuncs :
          /\ inlinableFuncs'[fn] = inlinableFuncs[fn]
          /\ (fn \in facts') = (fn \in facts)

\* C22: the analyzer runs in two passes, the discovery of the annotated
\* declarations of the package being over before any call is examined, so
\* a call of an annotated function of the package is handled alike wherever
\* it stands, before or after the declaration, in its file or in another.
Thm_C22 == [](TwoPhases /\ HandledAlike) /\ [][FoundStays]_vars

Witness_C22 ==
    /\ Len(visits) = 3
    /\ visits[1].kind = "decl" /\ visits[1].fn = "f1" /\ visits[1].file = "b.go"
    /\ inlinableFuncs["f1"] # Absent
    /\ visits[2].kind = "call" /\ visits[2].fn = "f1" /\ visits[2].file = "a.go"
    /\ visits[3].kind = "call" /\ visits[3].fn = "f1" /\ visits[3].file = "b.go"
    /\ visits[2].called /\ visits[3].called

----------------------------------------------------------------------------
(* The go:fix-inline analyzers: the replacement of a use of a constant *)

\* The imports of the file of the use once the edits are applied.
ImportsAfter == cuse.imports \cup
    {creport.edits[k].imp : k \in {j \in 1 .. Len(creport.edits) :
                                       creport.edits[j].kind = "import"}}

\* The fact of A the visit used.
UsedFact == inlinableConsts

\* C23 (as stated): a reported use of A, const A = B: when B is declared in
\* another package than the analyzed one, the replacement text is B
\* qualified by the name under which the file of the use imports the package
\* of B, and an edit adds that import when the file has none; when B is in
\* the analyzed package the replacement text is B.
Claim_C23 ==
    (cpc = "visited" /\ creport.reported) =>
        IF UsedFact.RHSPkgPath # PassPkg
        THEN /\ \E imp \in ImportsAfter :
                  /\ imp.path = UsedFact.RHSPkgPath
                  /\ creport.newText = imp.name \o <<".">> \o UsedFact.RHSName
             /\ (\A imp \in cuse.imports : imp.path # UsedFact.RHSPkgPath) =>
                  \E k \in 1 .. Len(creport.edits) :
                      /\ creport.edits[k].kind = "import"
                      /\ creport.edits[k].imp.path = UsedFact.RHSPkgPath
        ELSE creport.newText = UsedFact.RHSName

\* What gofix reports alone satisfies the statement.
GofixConforms == cuse.which = "gofix" => Claim_C23

\* inline/analyzer reports the use of A in the analyzed package, B in
\* testdata/b, with the text unimp.B and no import edit.
UnimpReported ==
    /\ cpc = "visited" /\ cuse.which = "inline" /\ creport.reported
    /\ cuse.conPkg = PassPkg /\ UsedFact.RHSPkgPath = "testdata/b"
    /\ creport.newText = <<"u", "n", "i", "m", "p", ".", "B">>
    /\ Len(creport.edits) = 1

----------------------------------------------------------------------------
(* The go:fix-inline analyzers: what makes a declaration a candidate *)

\* The comment is a line comment that begins with //go:fix and one space,
\* and what follows is inline with white space around it.
IsFixInline(text) ==
    /\ HasPrefix(text, <<"/", "/", "g", "o", ":", "f", "i", "x", " ">>)
    /\ \E a \in 9 .. Len(text) - 6 :
         /\ SubSeq(text, a + 1, a + 6) = <<"i", "n", "l", "i", "n", "e">>
         /\ \A i \in (10 .. a) \cup (a + 7 .. Len(text)) : text[i] \in WhiteSpace

\* The comments of the doc groups that count for the declaration.
DocComments ==
    {decl.doc[k] : k \in 1 .. Len(decl.doc)}
      \cup IF decl.tok = "func" THEN {}
           ELSE {decl.specDoc[k] : k \in 1 .. Len(decl.specDoc)}


\* The forms that make no candidate: a space after the slashes, further
\* arguments, no argument, and a block comment.
NotCandidateForms ==
    { <<"/", "/", " ", "g", "o", ":", "f", "i", "x", " ", "i", "n", "l", "i", "n", "e">>,
      <<"/", "/", "g", "o", ":", "f", "i", "x", " ", "i", "n", "l", "i", "n", "e", " ", "e", "x", "t", "r", "a">>,
      <<"/", "/", "g", "o", ":", "f", "i", "x">>,
      <<"/", "*", "g", "o", ":", "f", "i", "x", " ", "i", "n", "l", "i", "n", "e", "*", "/">> }

\* C24: find takes a function, const or type declaration for a candidate
\* exactly when a comment of its doc group (for const and type: of the doc of
\* the declaration or of the spec) is a line comment that begins with
\* //go:fix and a single space, followed by arguments that are inline once
\* the white space around them is trimmed; a declaration whose only comments
\* are // go:fix inline, //go:fix inline extra, //go:fix or a block comment
\* is no candidate.
Thm_C24 ==
    (dpc = "found" /\ decl.tok \in {"func", "const", "type"}) =>
        /\ candidate <=> \E c \in DocComments : IsFixInline(c)
        /\ DocComments \subseteq NotCandidateForms \cup {PlainComment} => ~candidate

\* A const declaration without a directive of its own whose spec has the
\* doc "//go:fix  inline" followed by a tab is visited and is a candidate.
Witness_C24 ==
    /\ dpc = "found" /\ decl.tok = "const" /\ decl.doc = <<>>
    /\ decl.specDoc = << <<"/", "/", "g", "o", ":", "f", "i", "x", " ", " ", "i", "n", "l", "i", "n", "e", "\t">> >>
    /\ candidate

----------------------------------------------------------------------------
(* internal/bisect: the ids CutMarker accepts *)

HexChars == DecDigits \cup HexLetters

\* 0x followed by 1 to 16 hex digits, or 1 to 64 binary digits.
WellFormedId(s) ==
    \/ /\ Len(s) >= 3 /\ Len(s) <= 2 + MarkerDigits
       /\ SubSeq(s, 1, 2) = <<"0", "x">>
       /\ \A k \in 3 .. Len(s) : s[k] \in HexChars
    \/ IsBinary(s) /\ Len(s) <= WordBits

\* C25 (as stated): CutMarker returns ok = true only when the text between
\* "[bisect-match " and the next "]" is 0x followed by 1 to 16 hex digits or
\* is 1 to 64 binary digits; for any other content, and when the "]" is
\* missing, it returns the line, the id 0 and ok = false.
Claim_C25 ==
    /\ HandWritten =>
         /\ cut.ok => WellFormedId(msrc.idstr)
         /\ ~WellFormedId(msrc.idstr) => cut = NotFound(line)
    /\ (mpc = "cut" /\ msrc.how = "open" /\ NoPrefixIn(msrc.pre)
          /\ \A k \in 1 .. Len(msrc.suf) : msrc.suf[k] # "]") =>
         cut = NotFound(line)

\* The marker [bisect-match 0xg] is cut with ok = true and the id 0.
NonHexAccepted ==
    /\ HandWritten /\ msrc.idstr = <<"0", "x", "g">>
    /\ cut.ok /\ cut.id = {}

\* Apart from a non-hex character after 0x the statement holds.
OnlyHexDiverges ==
    (mpc = "cut" /\ ~Claim_C25) =>
        /\ Len(msrc.idstr) >= 3 /\ SubSeq(msrc.idstr, 1, 2) = <<"0", "x">>
        /\ \E k \in 3 .. Len(msrc.idstr) : msrc.idstr[k] \notin HexChars

----------------------------------------------------------------------------
(* internal/bisect: terms of 64 bits and more *)

\* What stands before the term of the pattern, and the term.
PatPrefix ==
    IF pattern # <<>> /\ pattern[1] = "-" THEN <<"-">>
    ELSE IF Len(pattern) >= 2 /\ pattern[2] = "+" THEN <<"0", "+">>
    ELSE <<>>

PatTerm == SubSeq(pattern, Len(PatPrefix) + 1, Len(pattern))

IsHexTerm(t) == t # <<>> /\ t[1] = "x"

\* The number of bits of the term.
TermBits(t) == IF IsHexTerm(t) THEN 4 * (Len(t) - 1) ELSE Len(t)

\* The binary digits of the term.
TermDigits(t) == IF IsHexTerm(t) THEN ExpandHex(Tail(t)) ELSE t

\* C26: a term of more than 64 bits makes New return the error "pattern
\* bits too long"; a term of exactly 64 bits is accepted with a mask of 64
\* ones, so that alone it matches the id equal to the term and no other; a
\* hex term xH is compiled to what the binary term of the expanded digits of
\* H is compiled to.
Thm_C26 ==
    (bpc = "made" /\ last = NoQuery /\ pattern # <<>>) =>
        LET t == PatTerm
            val == BinVal(TermDigits(t))
        IN /\ TermBits(t) > WordBits => (err = ErrTooLong /\ m = NilMatcher)
           /\ TermBits(t) = WordBits =>
                /\ err = "" /\ ~m.nil
                /\ m.list[Len(m.list)].mask = Word
                /\ m.list[Len(m.list)].bits = val
                /\ PatPrefix = <<>> =>
                     \A id \in Ids \cup {val} : ShouldEnable(m, id) <=> id = val
           /\ IsHexTerm(t) =>
                LET r == New(PatPrefix \o ExpandHex(Tail(t)))
                IN err = r.err /\ m = r.m

\* The term of 64 ones is accepted with the mask of 64 ones, and the id of
\* 64 ones is asked for and enabled.
Witness_C26 ==
    /\ bpc = "made" /\ pattern = Ones(WordBits) /\ err = ""
    /\ m.list = <<cond(Word, Word, TRUE)>>
    /\ last.op = "ShouldEnable" /\ last.id = Word /\ last.ret

----------------------------------------------------------------------------
(* internal/bisect: the condition list of a Matcher made by New *)

\* Some condition of the list is met by the id.
SomeCondMeets(list, id) ==
    \E j \in 1 .. Len(list) : BitAnd(id, list[j].mask) = list[j].bits

\* The last query fell through the loop over the conditions.
DefaultReached ==
    /\ last.op \in {"ShouldEnable", "ShouldReport"}
    /\ ~m.nil
    /\ last.ret = IF last.op = "ShouldEnable" THEN FALSE = m.enable ELSE FALSE
    /\ ~SomeCondMeets(m.list, last.id)

\* C27: a non-nil Matcher returned by New has at least one condition, so a
\* query of it answers with the default for no condition only when none of
\* its conditions is met by the id; when one is met the answer is the result
\* of a condition of the list.
Thm_C27 ==
    (bpc \in {"made", "panicked"} /\ err = "" /\ ~m.nil) =>
        /\ m.list # <<>>
        /\ last.op \in {"ShouldEnable", "ShouldReport"} =>
             IF SomeCondMeets(m.list, last.id)
             THEN \E j \in 1 .. Len(m.list) :
                     /\ BitAnd(last.id, m.list[j].mask) = m.list[j].bits
                     /\ last.ret = IF last.op = "ShouldEnable"
                                   THEN m.list[j].result = m.enable
                                   ELSE m.list[j].result
             ELSE DefaultReached

\* New("1") has the one condition, and ShouldEnable(0) meets none of its
\* conditions and answers false.
Witness_C27 ==
    /\ bpc = "made" /\ pattern = <<"1">> /\ ~m.nil /\ Len(m.list) = 1
    /\ last.op = "ShouldEnable" /\ last.id = {} /\ ~last.ret
    /\ DefaultReached

----------------------------------------------------------------------------
(* internal/mcp: a read does not tell which URIs are registered *)

\* The reply a client gets for the URI when a resource is registered for it
\* whose handler returns ResourceNotFoundError(uri).
ReplyOfNotFoundHandler(u) ==
    readResource([resources EXCEPT ![u] = "notfound"], u).reply

\* C28: a read of a URI that is not registered invokes no handler and is
\* answered with the wire error of code -31002, message "Resource not
\* found" and data carrying the URI, which is the reply to a read of a
\* registered resource whose handler returns ResourceNotFoundError(uri).
Thm_C28 ==
    /\ (nreads > 0 /\ ~rlast.registered) =>
         /\ ~rlast.invoked
         /\ rlast.reply.kind = "wire"
         /\ rlast.reply.code = -31002
         /\ rlast.reply.message = "Resource not found"
         /\ rlast.reply.data = <<"{", "\"uri\"", ":", "\"", rlast.uri, "\"", "}">>
         /\ rlast.reply = ReplyOfNotFoundHandler(rlast.uri)
    /\ resources # <<>> =>
         \A u \in URIs :
            readResource([resources EXCEPT ![u] = NoHandler], u).reply
                = ReplyOfNotFoundHandler(u)

\* With file:///nonexistent.txt registered with a handler that finds
\* nothing, file:///secret.txt, which is not registered, is read.
Witness_C28 ==
    /\ nreads > 0 /\ rlast.uri = "file:///secret.txt" /\ ~rlast.registered
    /\ resources # <<>>
    /\ resources["file:///secret.txt"] = NoHandler
    /\ resources["file:///nonexistent.txt"] = "notfound"
    /\ rlast.reply = ResourceNotFoundError("file:///secret.txt")

====
